---- MODULE Spec2Model ----
(***************************************************************************)
(* A state-machine model of BlitGL (libANGLE/renderer/gl/BlitGL.cpp), the  *)
(* helper that emulates blits, copies and clears with shaders and scratch  *)
(* GL objects.  One engine instance talks to one GL device.  Each public   *)
(* method is one action; the statements of the method are applied in       *)
(* program order to a "machine" record (engine fields, device state and    *)
(* the list of device commands the call has issued so far).                *)
(*                                                                         *)
(* C++ array index i of mScratchTextures is index i+1 here.                *)
(* GL names are integers, 0 is "no object" as in GL.                       *)
(***************************************************************************)
EXTENDS Integers, Sequences, FiniteSets, TLC

VARIABLES
    engine,     \* the BlitGL object's fields
    alive,      \* TRUE from construction until ~BlitGL has run
    rs,         \* device render state (what StateManagerGL setters change)
    bind,       \* device bindings and pixel-store state
    objs,       \* device objects: names handed out, live objects, contents
    src,        \* sampler state of the source TextureGL given to copySubTexture
    cmds,       \* device commands issued by the last public call, in order
    call,       \* the last public call: its name, inputs and result
    stats       \* history: how often each object was generated / deleted

vars == <<engine, alive, rs, bind, objs, src, cmds, call, stats>>

(***************************************************************************)
(* Bounds of the model.                                                    *)
(***************************************************************************)
MaxVertexAttribs == 2      \* what GL_MAX_VERTEX_ATTRIBS reports
MaxLayers == 3             \* layers of a 3D / array texture given to a clear
MaxCalls == 2              \* public calls made on one engine before it is destroyed

(***************************************************************************)
(* Enumerations of the source.                                             *)
(***************************************************************************)
BlitProgramTypes == <<"FLOAT_TO_FLOAT", "FLOAT_TO_UINT", "UINT_TO_UINT">>
BlitProgramType == {BlitProgramTypes[i] : i \in 1..Len(BlitProgramTypes)}

ComponentTypes == {"GL_UNSIGNED_INT", "GL_INT", "GL_FLOAT", "GL_UNSIGNED_NORMALIZED"}
LumaFormats == {"GL_ALPHA", "GL_LUMINANCE", "GL_LUMINANCE_ALPHA"}
Filters == {"GL_NEAREST", "GL_LINEAR"}
TextureTypes == {"_2D", "_3D", "_2DArray", "CubeMap"}
AttachmentPoints == {"GL_COLOR_ATTACHMENT0", "GL_DEPTH_ATTACHMENT", "GL_STENCIL_ATTACHMENT"}

(***************************************************************************)
(* Names of the objects the caller owns and passes in.                     *)
(***************************************************************************)
SourceFramebufferID == 11
DestFramebufferID == 12
ClearFramebufferID == 13
SourceTextureID == 21
DestTextureID == 22
RenderbufferID == 31

Rect(x, y, w, h) == [x |-> x, y |-> y, width |-> w, height |-> h]

NoAttachment == [kind |-> "none", name |-> 0, layer |-> -1]

(***************************************************************************)
(* The machine record threaded through the statements of a call.           *)
(***************************************************************************)
NoUniforms == [u_source_texture |-> "unset", u_scale |-> "unset", u_offset |-> "unset",
               u_multiply_alpha |-> "unset", u_unmultiply_alpha |-> "unset"]

\* uniforms: the values the call has given the uniforms of the program in use;
\* err: an ANGLE_TRY has seen an error; result: what the call returns.
Machine == [engine |-> engine, rs |-> rs, bind |-> bind, objs |-> objs, src |-> src,
            log |-> <<>>, stats |-> stats, err |-> FALSE, uniforms |-> NoUniforms,
            result |-> "NoError"]

Emit(m, c, a) == [m EXCEPT !.log = Append(@, [cmd |-> c, arg |-> a])]

\* The steps of a method, taken in program order; the value is the last one.
Run(steps) == steps[Len(steps)]

Count(log, c) == Len(SelectSeq(log, LAMBDA e : e.cmd = c))

Has(log, c) == \E i \in 1..Len(log) : log[i].cmd = c

Bump(f, k) == [f EXCEPT ![k] = @ + 1]

(***************************************************************************)
(* Device: generating and deleting object names.  A name handed out is     *)
(* never 0 and never one handed out before in the same name space.         *)
(***************************************************************************)
GenName(m, space) == m.objs.names[space] + 1

Allocate(m, space, slot) ==
    LET n == GenName(m, space)
    IN [m EXCEPT !.objs.names[space] = n,
                 !.objs.live = @ \cup {[space |-> space, name |-> n]},
                 !.stats.gen = Bump(@, slot)]

TextureSlot(i) == IF i = 1 THEN "texture1" ELSE "texture2"

GenSlots == {"texture1", "texture2", "framebuffer", "buffer", "vertexArray", "shader"}
                \cup BlitProgramType

Delete(m, space, name) ==
    [m EXCEPT !.objs.live = @ \ {[space |-> space, name |-> name]},
              !.stats.deleted = Append(@, [space |-> space, name |-> name])]

(***************************************************************************)
(* Device: bindings, texture storage and parameters, attachments.          *)
(***************************************************************************)
DefaultTexParams == [minFilter |-> "GL_NEAREST_MIPMAP_LINEAR", magFilter |-> "GL_LINEAR",
                     wrapS |-> "GL_REPEAT", wrapT |-> "GL_REPEAT", swizzle |-> "RGBA"]

EmptyAttachments == [p \in AttachmentPoints |-> NoAttachment]

BoundTexture(m, type) == m.bind.texture[m.bind.activeUnit][type]

bindTexture(m, type, name) ==
    Emit([m EXCEPT !.bind.texture[m.bind.activeUnit][type] = name], "bindTexture", name)

bindFramebuffer(m, target, name) ==
    LET b == m.bind
        b1 == IF target \in {"GL_FRAMEBUFFER", "GL_DRAW_FRAMEBUFFER"}
                THEN [b EXCEPT !.drawFBO = name] ELSE b
        b2 == IF target \in {"GL_FRAMEBUFFER", "GL_READ_FRAMEBUFFER"}
                THEN [b1 EXCEPT !.readFBO = name] ELSE b1
    IN Emit([m EXCEPT !.bind = b2], "bindFramebuffer", [target |-> target, name |-> name])

TexParamsOf(m, name) ==
    IF name \in DOMAIN m.objs.texParams THEN m.objs.texParams[name] ELSE DefaultTexParams

\* texImage2D / copyTexImage2D on the 2D texture bound to the active unit:
\* the level-0 image of that texture gets the given size.
DefineImage(m, c, type, w, h) ==
    LET name == BoundTexture(m, type)
    IN Emit([m EXCEPT !.objs.storage = (name :> <<w, h>>) @@ @], c,
            [name |-> name, width |-> w, height |-> h])

\* texParameteri / texParameteriv on the 2D texture bound to the active unit.
texParameter(m, param, value) ==
    LET name == BoundTexture(m, "_2D")
        p == TexParamsOf(m, name)
    IN Emit([m EXCEPT !.objs.texParams = (name :> [p EXCEPT ![param] = value]) @@ @],
            "texParameter", [name |-> name, param |-> param, value |-> value])

AttachmentsOf(m, fbo) ==
    IF fbo \in DOMAIN m.objs.attach THEN m.objs.attach[fbo] ELSE EmptyAttachments

\* framebufferTexture2D / framebufferTexture / framebufferTextureLayer /
\* framebufferRenderbuffer with target GL_FRAMEBUFFER: the attachment point of
\* the framebuffer bound for drawing is replaced.
Attach(m, c, point, att) ==
    LET fbo == m.bind.drawFBO
        cur == AttachmentsOf(m, fbo)
    IN Emit([m EXCEPT !.objs.attach = (fbo :> [cur EXCEPT ![point] = att]) @@ @],
            c, [fbo |-> fbo, point |-> point, att |-> att])

(***************************************************************************)
(* BlitGL::BlitGL                                                          *)
(***************************************************************************)
BlitGL == [mScratchTextures |-> <<0, 0>>,
           mScratchFBO |-> 0,
           mVAO |-> 0,
           mVertexBuffer |-> 0,
           mBlitPrograms |-> [t \in {} |-> 0]]

(***************************************************************************)
(* BlitGL::initializeResources                                             *)
(***************************************************************************)
GenScratchTexture(m, i) ==
    IF m.engine.mScratchTextures[i] = 0
      THEN LET n == GenName(m, "texture")
           IN Emit([Allocate(m, "texture", TextureSlot(i))
                       EXCEPT !.engine.mScratchTextures[i] = n], "genTextures", n)
      ELSE m

\* A GenScratchFBO without the test of the handle.
GenScratchFBO_Again(m) ==
    LET n == GenName(m, "framebuffer")
    IN Emit([Allocate(m, "framebuffer", "framebuffer") EXCEPT !.engine.mScratchFBO = n],
            "genFramebuffers", n)

GenScratchFBO(m) ==
    IF m.engine.mScratchFBO = 0
      THEN LET n == GenName(m, "framebuffer")
           IN Emit([Allocate(m, "framebuffer", "framebuffer") EXCEPT !.engine.mScratchFBO = n],
                   "genFramebuffers", n)
      ELSE m

GenVertexBuffer(m) ==
    IF m.engine.mVertexBuffer = 0
      THEN LET n == GenName(m, "buffer")
               a == Emit([Allocate(m, "buffer", "buffer") EXCEPT !.engine.mVertexBuffer = n],
                         "genBuffers", n)
               b == Emit([a EXCEPT !.bind.arrayBuffer = n], "bindBuffer", n)
           IN Emit([b EXCEPT !.objs.bufferFloats = (n :> 6) @@ @], "bufferData", n)
      ELSE m

RECURSIVE EnableAttribs(_, _, _)
EnableAttribs(m, i, maxAttributes) ==
    IF i < maxAttributes
      THEN LET a == Emit([m EXCEPT !.objs.vaoAttribs = @ \cup {<<m.bind.vao, i>>}],
                         "enableVertexAttribArray", i)
               b == Emit(a, "vertexAttribPointer", [index |-> i, buffer |-> m.bind.arrayBuffer])
           IN EnableAttribs(b, i + 1, maxAttributes)
      ELSE m

GenVAO(m) ==
    IF m.engine.mVAO = 0
      THEN LET n == GenName(m, "vertexArray")
               a == Emit([Allocate(m, "vertexArray", "vertexArray") EXCEPT !.engine.mVAO = n],
                         "genVertexArrays", n)
               b == Emit([a EXCEPT !.bind.vao = n], "bindVertexArray", n)
               c == Emit([b EXCEPT !.bind.arrayBuffer = m.engine.mVertexBuffer],
                         "bindBuffer", m.engine.mVertexBuffer)
           IN EnableAttribs(c, 0, MaxVertexAttribs)
      ELSE m

\* The command log also keeps the calls of initializeResources and of
\* getBlitProgram.
initializeResources(m) ==
    LET a == GenScratchFBO(GenScratchTexture(
                 GenScratchTexture(Emit(m, "initializeResources", 0), 1), 2))
        b == GenVertexBuffer(a)
    IN Run(<<a, b, GenVAO(b)>>)

(***************************************************************************)
(* BlitGL::orphanScratchTextures, BlitGL::setScratchTextureParameter       *)
(***************************************************************************)
DefaultUnpack == [alignment |-> 4, buffer |-> 0]
DefaultPack == [alignment |-> 4, buffer |-> 0]

OrphanOne(m, texture) ==
    LET a == bindTexture(m, "_2D", texture)
        b == Emit([a EXCEPT !.bind.unpack = DefaultUnpack], "setPixelUnpackState", 4)
        c == Emit([b EXCEPT !.bind.unpack.buffer = 0], "setPixelUnpackBuffer", 0)
    IN DefineImage(c, "texImage2D", "_2D", 0, 0)

orphanScratchTextures(m) ==
    OrphanOne(OrphanOne(m, m.engine.mScratchTextures[1]), m.engine.mScratchTextures[2])

SetParamOne(m, texture, param, value) ==
    texParameter(texParameter(bindTexture(m, "_2D", texture), param, value), param, value)

setScratchTextureParameter(m, param, value) ==
    SetParamOne(SetParamOne(m, m.engine.mScratchTextures[1], param, value),
                m.engine.mScratchTextures[2], param, value)

(***************************************************************************)
(* BlitGL::getBlitProgramType                                              *)
(***************************************************************************)
\* A getBlitProgramType that tests the destination first.
getBlitProgramType_DestFirst(sourceComponentType, destComponentType) ==
    IF destComponentType = "GL_UNSIGNED_INT"
      THEN "FLOAT_TO_UINT"
      ELSE IF sourceComponentType = "GL_UNSIGNED_INT"
             THEN "UINT_TO_UINT"
             ELSE "FLOAT_TO_FLOAT"

getBlitProgramType(sourceComponentType, destComponentType) ==
    IF sourceComponentType = "GL_UNSIGNED_INT"
      THEN "UINT_TO_UINT"
      ELSE IF destComponentType = "GL_UNSIGNED_INT"
             THEN "FLOAT_TO_UINT"
             ELSE "FLOAT_TO_FLOAT"

\* The ASSERTs of getBlitProgramType: the pairs a caller may pass.
ValidComponentTypes(sourceComponentType, destComponentType) ==
    /\ sourceComponentType = "GL_UNSIGNED_INT" => destComponentType = "GL_UNSIGNED_INT"
    /\ sourceComponentType # "GL_INT"

(***************************************************************************)
(* BlitGL::getBlitProgram: the shader text is a function of the type and   *)
(* of mFunctions->standard; the text is kept as the values of its holes.   *)
(***************************************************************************)
\* A version that is elevated for every variant.
ShaderVersion_Elevated(type, standard) ==
    IF standard = "STANDARD_GL_DESKTOP" THEN "330" ELSE "300 es"

ShaderVersion(type, standard) ==
    IF type = "FLOAT_TO_FLOAT" THEN "100"
    ELSE IF standard = "STANDARD_GL_DESKTOP" THEN "330" ELSE "300 es"

VertexShaderSource(type, standard) ==
    [version |-> ShaderVersion(type, standard),
     vsInputVariableQualifier |-> IF type = "FLOAT_TO_FLOAT" THEN "attribute" ELSE "in",
     vsOutputVariableQualifier |-> IF type = "FLOAT_TO_FLOAT" THEN "varying" ELSE "out"]

FragmentShaderSource(type, standard) ==
    [version |-> ShaderVersion(type, standard),
     fsInputVariableQualifier |-> IF type = "FLOAT_TO_FLOAT" THEN "varying" ELSE "in",
     fsOutputVariableQualifier |-> IF type = "FLOAT_TO_FLOAT" THEN "" ELSE "out",
     sampleFunction |-> IF type = "FLOAT_TO_FLOAT" THEN "texture2D" ELSE "texture",
     samplerType |-> IF type = "UINT_TO_UINT" THEN "usampler2D" ELSE "sampler2D",
     samplerResultType |-> IF type = "UINT_TO_UINT" THEN "uvec4" ELSE "vec4",
     outputType |-> IF type = "FLOAT_TO_FLOAT" THEN "" ELSE "uvec4",
     outputVariableName |-> IF type = "FLOAT_TO_FLOAT" THEN "gl_FragColor" ELSE "outputUint",
     outputMultiplier |-> IF type = "FLOAT_TO_FLOAT" THEN "1.0" ELSE "255.0"]

\* A BlitProgram as std::map's operator[] value-initializes it.
NoBlitProgram == [program |-> 0, sourceTextureLocation |-> -1, scaleLocation |-> -1,
                  offsetLocation |-> -1, multiplyAlphaLocation |-> -1,
                  unMultiplyAlphaLocation |-> -1]

UniformNames == <<"u_source_texture", "u_scale", "u_offset", "u_multiply_alpha",
                  "u_unmultiply_alpha">>

\* The device's answer to getUniformLocation for a linked blit program.
getUniformLocation(m, program, name) ==
    IF program \in m.objs.linked
      THEN CHOOSE i \in 0..(Len(UniformNames) - 1) : UniformNames[i + 1] = name
      ELSE -1

\* A CompileShader that does not look at GL_COMPILE_STATUS.
CompileShader_Unchecked(m, type, stage, source, ok) ==
    LET sh == GenName(m, "program")
        a == Emit(Allocate(m, "program", "shader"), "createShader",
                  [shader |-> sh, stage |-> stage])
        b == Emit(a, "shaderSource", [shader |-> sh, source |-> source])
        c == Emit([b EXCEPT !.stats.compiled = Bump(@, type)], "compileShader", sh)
    IN Emit(Delete(Emit(c, "attachShader",
                        [program |-> m.engine.mBlitPrograms[type].program, shader |-> sh]),
                   "program", sh),
            "deleteShader", sh)

\* createShader, shaderSource, compileShader, CheckCompileStatus and, when the
\* shader compiled, attachShader and deleteShader.  ok is the device's
\* GL_COMPILE_STATUS.
CompileShader(m, type, stage, source, ok) ==
    LET sh == GenName(m, "program")
        a == Emit(Allocate(m, "program", "shader"), "createShader",
                  [shader |-> sh, stage |-> stage])
        b == Emit(a, "shaderSource", [shader |-> sh, source |-> source])
        c == Emit([b EXCEPT !.stats.compiled = Bump(@, type)], "compileShader", sh)
    IN IF ~ok
         THEN [c EXCEPT !.err = TRUE]
         ELSE Emit(Delete(Emit(c, "attachShader",
                               [program |-> m.engine.mBlitPrograms[type].program,
                                shader |-> sh]),
                          "program", sh),
                   "deleteShader", sh)

LinkProgram(m, type, ok) ==
    LET p == m.engine.mBlitPrograms[type].program
        a == Emit([m EXCEPT !.stats.linked = Bump(@, type)], "linkProgram", p)
    IN IF ~ok
         THEN [a EXCEPT !.err = TRUE]
         ELSE [a EXCEPT !.objs.linked = @ \cup {p}]

QueryLocations(m, type) ==
    LET p == m.engine.mBlitPrograms[type].program
    IN Emit([m EXCEPT !.engine.mBlitPrograms[type] =
                 [program |-> p,
                  sourceTextureLocation |-> getUniformLocation(m, p, "u_source_texture"),
                  scaleLocation |-> getUniformLocation(m, p, "u_scale"),
                  offsetLocation |-> getUniformLocation(m, p, "u_offset"),
                  multiplyAlphaLocation |-> getUniformLocation(m, p, "u_multiply_alpha"),
                  unMultiplyAlphaLocation |-> getUniformLocation(m, p, "u_unmultiply_alpha")]],
            "getUniformLocation", p)

CreateProgram(m, type) ==
    LET p == GenName(m, "program")
    IN Emit([Allocate(m, "program", type) EXCEPT !.engine.mBlitPrograms[type].program = p],
            "createProgram", [type |-> type, program |-> p])

\* The body of "if (result.program == 0)": fail names the step the device
\* fails: "none", "vs", "fs" or "link".
BuildBlitProgram(m, type, fail) ==
    LET standard == m.objs.caps.standard
        Locations(linked) == IF linked.err THEN linked ELSE QueryLocations(linked, type)
        Link(fs) ==
            IF fs.err THEN fs ELSE Locations(LinkProgram(fs, type, fail # "link"))
        Fragment(vs) ==
            IF vs.err THEN vs
            ELSE Link(CompileShader(vs, type, "GL_FRAGMENT_SHADER",
                                    FragmentShaderSource(type, standard), fail # "fs"))
    IN Fragment(CompileShader(CreateProgram(m, type), type, "GL_VERTEX_SHADER",
                              VertexShaderSource(type, standard), fail # "vs"))

\* mBlitPrograms[type] makes the entry when there is none.
BlitProgramEntry(m, type) ==
    IF type \in DOMAIN m.engine.mBlitPrograms THEN m
    ELSE [m EXCEPT !.engine.mBlitPrograms = (type :> NoBlitProgram) @@ @]

\* A getBlitProgram that builds the program on every request.
getBlitProgram_Rebuild(m, type, fail) ==
    BuildBlitProgram(Emit(BlitProgramEntry(m, type), "getBlitProgram", type), type, fail)

\* The result has err = TRUE when the call returns an error.
getBlitProgram(m, type, fail) ==
    LET Lookup(result) ==
            IF result.engine.mBlitPrograms[type].program # 0
              THEN result
              ELSE BuildBlitProgram(result, type, fail)
    IN Lookup(Emit(BlitProgramEntry(m, type), "getBlitProgram", type))

(***************************************************************************)
(* BlitGL::~BlitGL                                                         *)
(***************************************************************************)
RECURSIVE DeletePrograms(_, _)
DeletePrograms(m, i) ==
    IF i > Len(BlitProgramTypes) THEN m
    ELSE LET t == BlitProgramTypes[i]
         IN IF t \in DOMAIN m.engine.mBlitPrograms
              THEN LET p == m.engine.mBlitPrograms[t].program
                   IN DeletePrograms(Emit(Delete(m, "program", p), "deleteProgram", p), i + 1)
              ELSE DeletePrograms(m, i + 1)

DeleteScratchTexture(m, i) ==
    IF m.engine.mScratchTextures[i] # 0
      THEN LET n == m.engine.mScratchTextures[i]
           IN Emit([Delete(m, "texture", n) EXCEPT !.engine.mScratchTextures[i] = 0],
                   "deleteTexture", n)
      ELSE m

DeleteScratchFBO(m) ==
    IF m.engine.mScratchFBO # 0
      THEN LET n == m.engine.mScratchFBO
           IN Emit([Delete(m, "framebuffer", n) EXCEPT !.engine.mScratchFBO = 0],
                   "deleteFramebuffer", n)
      ELSE m

DeleteVAO(m) ==
    IF m.engine.mVAO # 0
      THEN LET n == m.engine.mVAO
           IN Emit([Delete(m, "vertexArray", n) EXCEPT !.engine.mVAO = 0],
                   "deleteVertexArray", n)
      ELSE m

Destructor(m) ==
    LET a == DeletePrograms(m, 1)
        b == DeleteScratchTexture(
                 DeleteScratchTexture([a EXCEPT !.engine.mBlitPrograms = [t \in {} |-> 0]], 1), 2)
    IN Run(<<a, b, DeleteVAO(DeleteScratchFBO(b))>>)

(***************************************************************************)
(* ScopedGLState.  pauseAllQueries / resumeAllQueries may fail; the error  *)
(* is swallowed (ANGLE_SWALLOW_ERR).                                       *)
(***************************************************************************)
pauseAllQueries(m, ok) ==
    Emit(IF ok THEN [m EXCEPT !.rs.queriesPaused = TRUE] ELSE m, "pauseAllQueries", ok)

resumeAllQueries(m, ok) ==
    Emit(IF ok THEN [m EXCEPT !.rs.queriesPaused = FALSE] ELSE m, "resumeAllQueries", ok)

\* A constructor that leaves face culling as it finds it.
ForceRenderState_KeepCull(m, viewport, keepState) ==
    LET a == IF "KEEP_SCISSOR" \notin keepState
               THEN Emit([m EXCEPT !.rs.scissorTest = FALSE], "setScissorTestEnabled", FALSE)
               ELSE m
        b == Emit([a EXCEPT !.rs.viewport = viewport], "setViewport", viewport)
        c == Emit([b EXCEPT !.rs.depthRange = <<0, 1>>], "setDepthRange", <<0, 1>>)
        d == Emit([c EXCEPT !.rs.blend = FALSE], "setBlendEnabled", FALSE)
        e == Emit([d EXCEPT !.rs.colorMask = <<TRUE, TRUE, TRUE, TRUE>>], "setColorMask",
                  <<TRUE, TRUE, TRUE, TRUE>>)
        f == Emit([e EXCEPT !.rs.sampleAlphaToCoverage = FALSE],
                  "setSampleAlphaToCoverageEnabled", FALSE)
        g == Emit([f EXCEPT !.rs.sampleCoverage = FALSE], "setSampleCoverageEnabled", FALSE)
        h == Emit([g EXCEPT !.rs.depthTest = FALSE], "setDepthTestEnabled", FALSE)
        i == Emit([h EXCEPT !.rs.stencilTest = FALSE], "setStencilTestEnabled", FALSE)
        j == i
        k == Emit([j EXCEPT !.rs.polygonOffsetFill = FALSE], "setPolygonOffsetFillEnabled", FALSE)
    IN Run(<<f, Emit([k EXCEPT !.rs.rasterizerDiscard = FALSE],
                     "setRasterizerDiscardEnabled", FALSE)>>)

ForceRenderState(m, viewport, keepState) ==
    LET a == IF "KEEP_SCISSOR" \notin keepState
               THEN Emit([m EXCEPT !.rs.scissorTest = FALSE], "setScissorTestEnabled", FALSE)
               ELSE m
        b == Emit([a EXCEPT !.rs.viewport = viewport], "setViewport", viewport)
        c == Emit([b EXCEPT !.rs.depthRange = <<0, 1>>], "setDepthRange", <<0, 1>>)
        d == Emit([c EXCEPT !.rs.blend = FALSE], "setBlendEnabled", FALSE)
        e == Emit([d EXCEPT !.rs.colorMask = <<TRUE, TRUE, TRUE, TRUE>>], "setColorMask",
                  <<TRUE, TRUE, TRUE, TRUE>>)
        f == Emit([e EXCEPT !.rs.sampleAlphaToCoverage = FALSE],
                  "setSampleAlphaToCoverageEnabled", FALSE)
        g == Emit([f EXCEPT !.rs.sampleCoverage = FALSE], "setSampleCoverageEnabled", FALSE)
        h == Emit([g EXCEPT !.rs.depthTest = FALSE], "setDepthTestEnabled", FALSE)
        i == Emit([h EXCEPT !.rs.stencilTest = FALSE], "setStencilTestEnabled", FALSE)
        j == Emit([i EXCEPT !.rs.cullFace = FALSE], "setCullFaceEnabled", FALSE)
        k == Emit([j EXCEPT !.rs.polygonOffsetFill = FALSE], "setPolygonOffsetFillEnabled", FALSE)
    IN Run(<<f, Emit([k EXCEPT !.rs.rasterizerDiscard = FALSE],
                     "setRasterizerDiscardEnabled", FALSE)>>)

pauseTransformFeedback(m) ==
    Emit([m EXCEPT !.rs.transformFeedbackPaused = TRUE], "pauseTransformFeedback", 0)

\* A constructor that ignores keepState.
ScopedGLState_IgnoreKeep(m, viewport, keepState, pauseOK) ==
    pauseAllQueries(pauseTransformFeedback(ForceRenderState(m, viewport, {})), pauseOK)

ScopedGLState(m, viewport, keepState, pauseOK) ==
    pauseAllQueries(pauseTransformFeedback(ForceRenderState(m, viewport, keepState)), pauseOK)

\* A destructor that tries the resume a second time when it fails.
ScopedGLStateDtor_Retry(m, resumeOK) ==
    IF resumeOK THEN resumeAllQueries(m, TRUE)
    ELSE resumeAllQueries(resumeAllQueries(m, FALSE), FALSE)

\* A destructor that resumes nothing.
ScopedGLStateDtor_NoResume(m, resumeOK) == m

ScopedGLStateDtor(m, resumeOK) == resumeAllQueries(m, resumeOK)

willUseTextureUnit(m, unit) ==
    IF m.objs.caps.bindSampler
      THEN Emit([m EXCEPT !.bind.sampler[unit] = 0], "bindSampler", unit)
      ELSE m

(***************************************************************************)
(* SetClearState, PrepareForClear, UnbindAttachments                       *)
(***************************************************************************)
\* A clear mask without the stencil bit.
ClearMask_NoStencil(colorClear, depthClear, stencilClear) ==
    (IF colorClear THEN {"GL_COLOR_BUFFER_BIT"} ELSE {})
      \cup (IF depthClear THEN {"GL_DEPTH_BUFFER_BIT"} ELSE {})

ClearMask(colorClear, depthClear, stencilClear) ==
    (IF colorClear THEN {"GL_COLOR_BUFFER_BIT"} ELSE {})
      \cup (IF depthClear THEN {"GL_DEPTH_BUFFER_BIT"} ELSE {})
      \cup (IF stencilClear THEN {"GL_STENCIL_BUFFER_BIT"} ELSE {})

SetClearState(m, colorClear, depthClear, stencilClear) ==
    LET Color(x) ==
            IF colorClear
              THEN Emit([Emit([x EXCEPT !.rs.clearColor = <<0, 0, 0, 0>>],
                              "setClearColor", <<0, 0, 0, 0>>)
                            EXCEPT !.rs.colorMask = <<TRUE, TRUE, TRUE, TRUE>>],
                        "setColorMask", <<TRUE, TRUE, TRUE, TRUE>>)
              ELSE x
        Depth(x) ==
            IF depthClear
              THEN Emit([Emit([x EXCEPT !.rs.depthMask = TRUE], "setDepthMask", TRUE)
                            EXCEPT !.rs.clearDepth = 1],
                        "setClearDepth", 1)
              ELSE x
        Stencil(x) ==
            IF stencilClear
              THEN Emit([x EXCEPT !.rs.clearStencil = 0], "setClearStencil", 0)
              ELSE x
    IN Emit([Stencil(Depth(Color(m))) EXCEPT !.rs.scissorTest = FALSE],
            "setScissorTestEnabled", FALSE)

\* gl::GetSizedInternalFormatInfo for the formats given to the clears.
SizedInternalFormats == {"GL_RGBA8", "GL_DEPTH_COMPONENT16", "GL_DEPTH24_STENCIL8",
                         "GL_STENCIL_INDEX8"}

GetSizedInternalFormatInfo(format) ==
    CASE format = "GL_RGBA8" -> [depthBits |-> 0, stencilBits |-> 0]
      [] format = "GL_DEPTH_COMPONENT16" -> [depthBits |-> 16, stencilBits |-> 0]
      [] format = "GL_DEPTH24_STENCIL8" -> [depthBits |-> 24, stencilBits |-> 8]
      [] format = "GL_STENCIL_INDEX8" -> [depthBits |-> 0, stencilBits |-> 8]

BindDepth(format) == GetSizedInternalFormatInfo(format).depthBits > 0

\* A bindStencil that gives way to bindDepth.
BindStencil_Exclusive(format) ==
    GetSizedInternalFormatInfo(format).stencilBits > 0
        /\ GetSizedInternalFormatInfo(format).depthBits = 0

BindStencil(format) == GetSizedInternalFormatInfo(format).stencilBits > 0

BindColor(format) == ~BindDepth(format) /\ ~BindStencil(format)

\* outBindtargets of PrepareForClear, in push_back order.
BindTargets(format) ==
    (IF BindColor(format) THEN <<"GL_COLOR_ATTACHMENT0">> ELSE <<>>)
      \o (IF BindDepth(format) THEN <<"GL_DEPTH_ATTACHMENT">> ELSE <<>>)
      \o (IF BindStencil(format) THEN <<"GL_STENCIL_ATTACHMENT">> ELSE <<>>)

\* outClearMask of PrepareForClear.
PrepareClearMask(format) == ClearMask(BindColor(format), BindDepth(format), BindStencil(format))

PrepareForClear(m, format) ==
    SetClearState(m, BindColor(format), BindDepth(format), BindStencil(format))

\* An UnbindAttachments that detaches the first bind target only.
UnbindAttachments_First(m, bindTargets, i) ==
    IF Len(bindTargets) = 0 THEN m
    ELSE Attach(m, "framebufferRenderbuffer", bindTargets[1], NoAttachment)

RECURSIVE UnbindAttachments(_, _, _)
UnbindAttachments(m, bindTargets, i) ==
    IF i > Len(bindTargets) THEN m
    ELSE UnbindAttachments(Attach(m, "framebufferRenderbuffer", bindTargets[i], NoAttachment),
                           bindTargets, i + 1)

\* The "for (GLenum bindTarget : bindTargets)" loops that attach one image to
\* every bind target.
RECURSIVE BindAttachments(_, _, _, _, _)
BindAttachments(m, c, bindTargets, att, i) ==
    IF i > Len(bindTargets) THEN m
    ELSE BindAttachments(Attach(m, c, bindTargets[i], att), c, bindTargets, att, i + 1)

clear(m, clearMask) ==
    Emit(m, "clear", [mask |-> clearMask, fbo |-> m.bind.drawFBO,
                      att |-> AttachmentsOf(m, m.bind.drawFBO)])

(***************************************************************************)
(* Device commands used by the public methods.                             *)
(***************************************************************************)
activeTexture(m, unit) == Emit([m EXCEPT !.bind.activeUnit = unit], "activeTexture", unit)

\* The uniforms map holds what this call has set on the program in use.
useProgram(m, program) ==
    Emit([m EXCEPT !.bind.program = program, !.uniforms = NoUniforms], "useProgram", program)

\* uniform1i / uniform2f: location -1 is ignored by the device, and so is a
\* location of a program that is not linked.
uniform(m, location, value) ==
    LET a == Emit(m, "uniform", [location |-> location, value |-> value])
    IN IF location \in 0..(Len(UniformNames) - 1) /\ m.bind.program \in m.objs.linked
         THEN [a EXCEPT !.uniforms[UniformNames[location + 1]] = value]
         ELSE a

bindVertexArray(m, vao) == Emit([m EXCEPT !.bind.vao = vao], "bindVertexArray", vao)

\* drawArrays(GL_TRIANGLES, 0, 3); the entry keeps the device state the draw ran in.
drawArrays(m, count) ==
    Emit(m, "drawArrays", [count |-> count, rs |-> m.rs, bind |-> m.bind,
                           uniforms |-> m.uniforms,
                           linked |-> m.bind.program \in m.objs.linked])

Return(m, result) == [m EXCEPT !.result = result]

(***************************************************************************)
(* gl::Rectangle helpers (libANGLE/angletypes).                            *)
(***************************************************************************)
isReversedX(r) == r.width < 0
isReversedY(r) == r.height < 0

removeReversal(r) ==
    LET a == IF isReversedX(r) THEN [r EXCEPT !.x = r.x + r.width, !.width = -r.width] ELSE r
    IN IF isReversedY(a) THEN [a EXCEPT !.y = a.y + a.height, !.height = -a.height] ELSE a

Max(a, b) == IF a >= b THEN a ELSE b
Min(a, b) == IF a <= b THEN a ELSE b

\* gl::ClipRectangle(source, clip, &intersection): FALSE when the two do not
\* overlap, otherwise TRUE and the intersection.
ClipRectangle(source, clip) ==
    IF \/ source.x >= clip.x + clip.width
       \/ source.x + source.width <= clip.x
       \/ source.y >= clip.y + clip.height
       \/ source.y + source.height <= clip.y
      THEN [ok |-> FALSE, intersection |-> Rect(source.x, source.y, 0, 0)]
      ELSE LET x == Max(source.x, clip.x)
               y == Max(source.y, clip.y)
           IN [ok |-> TRUE,
               intersection |->
                   Rect(x, y,
                        Min(source.x + source.width, clip.x + clip.width) - x,
                        Min(source.y + source.height, clip.y + clip.height) - y)]

\* A float quotient n / d, kept exact as numerator and denominator.
Quot(n, d) == [num |-> n, den |-> d]
Vector2(x, y) == [x |-> x, y |-> y]

(***************************************************************************)
(* BlitGL::copySubImageToLUMAWorkaroundTexture                             *)
(* in.fail: the step of getBlitProgram the device fails;                   *)
(* in.readFail: which Framebuffer::getImplementationColorRead* call fails. *)
(***************************************************************************)
\* A scratch swizzle whose second channel reads the green of a luminance-alpha source.
LumaScratchSwizzle_GreenAlpha(lumaFormat) ==
    <<IF lumaFormat = "GL_ALPHA" THEN "GL_ALPHA" ELSE "GL_RED",
      IF lumaFormat = "GL_LUMINANCE_ALPHA" THEN "GL_GREEN" ELSE "GL_ZERO",
      "GL_ZERO", "GL_ZERO">>

LumaScratchSwizzle(lumaFormat) ==
    <<IF lumaFormat = "GL_ALPHA" THEN "GL_ALPHA" ELSE "GL_RED",
      IF lumaFormat = "GL_LUMINANCE_ALPHA" THEN "GL_ALPHA" ELSE "GL_ZERO",
      "GL_ZERO", "GL_ZERO">>

LumaDraw(m, in) ==
    LET blitProgram == m.engine.mBlitPrograms["FLOAT_TO_FLOAT"]
        sourceArea == in.sourceArea
        a == bindTexture(m, "_2D", m.engine.mScratchTextures[1])
        b == DefineImage(a, "copyTexImage2D", "_2D", sourceArea.width, sourceArea.height)
        c == texParameter(b, "swizzle", LumaScratchSwizzle(in.lumaFormat))
        d == bindTexture(c, "_2D", m.engine.mScratchTextures[2])
        e == DefineImage(d, "texImage2D", "_2D", sourceArea.width, sourceArea.height)
        f == bindFramebuffer(e, "GL_FRAMEBUFFER", m.engine.mScratchFBO)
        g == Attach(f, "framebufferTexture2D", "GL_COLOR_ATTACHMENT0",
                    [kind |-> "texture", name |-> m.engine.mScratchTextures[2], layer |-> -1])
        h == ScopedGLState(g, Rect(0, 0, sourceArea.width, sourceArea.height), {}, in.pauseOK)
        i == willUseTextureUnit(h, 0)
        j == setScratchTextureParameter(i, "minFilter", "GL_NEAREST")
        k == setScratchTextureParameter(j, "magFilter", "GL_NEAREST")
        l == activeTexture(k, 0)
        n == bindTexture(l, "_2D", m.engine.mScratchTextures[1])
        o == useProgram(n, blitProgram.program)
        p == uniform(o, blitProgram.sourceTextureLocation, 0)
        q == uniform(p, blitProgram.scaleLocation, Vector2(Quot(1, 1), Quot(1, 1)))
        r == uniform(q, blitProgram.offsetLocation, Vector2(Quot(0, 1), Quot(0, 1)))
        s == uniform(r, blitProgram.multiplyAlphaLocation, 0)
        t == uniform(s, blitProgram.unMultiplyAlphaLocation, 0)
        u == bindVertexArray(t, m.engine.mVAO)
        v == drawArrays(u, 3)
        w == bindTexture(v, in.textureType, in.texture)
        copied == IF in.target \in {"_3D", "_2DArray"}
                    THEN Emit(w, "copyTexSubImage3D", [target |-> in.target,
                                 offset |-> in.destOffset, area |-> sourceArea])
                    ELSE Emit(w, "copyTexSubImage2D", [target |-> in.target,
                                 offset |-> in.destOffset, area |-> sourceArea])
    IN Run(<<d, g, h, k, q, v,
             Return(ScopedGLStateDtor(orphanScratchTextures(copied), in.resumeOK), "NoError")>>)

copySubImageToLUMAWorkaroundTexture(m, in) ==
    LET a == initializeResources(m)
        b == getBlitProgram(a, "FLOAT_TO_FLOAT", in.fail)
        Copy(bound) ==
            IF in.readFail \in {"format", "type"} THEN Return(bound, "Error")
            ELSE LumaDraw(bound, in)
        Source(program) ==
            IF program.err THEN Return(program, "Error")
            ELSE Copy(bindFramebuffer(program, "GL_FRAMEBUFFER", SourceFramebufferID))
    IN Run(<<a, b, Source(b)>>)

(***************************************************************************)
(* BlitGL::copyImageToLUMAWorkaroundTexture                                *)
(***************************************************************************)
copyImageToLUMAWorkaroundTexture(m, in) ==
    LET a == bindTexture(m, in.textureType, in.texture)
        b == Emit([a EXCEPT !.bind.unpack = DefaultUnpack], "setPixelUnpackState", 4)
        c == Emit([b EXCEPT !.bind.unpack.buffer = in.unpackBuffer],
                  "setPixelUnpackBuffer", in.unpackBuffer)
        d == DefineImage(c, "texImage2D", in.textureType, in.sourceArea.width,
                         in.sourceArea.height)
        Copy(allocated) ==
            copySubImageToLUMAWorkaroundTexture(
                allocated, [in EXCEPT !.destOffset = [x |-> 0, y |-> 0, z |-> 0]])
    IN IF in.readFail = "imageType" THEN Return(a, "Error")
       ELSE Run(<<d, Copy(d)>>)

(***************************************************************************)
(* BlitGL::blitColorBufferWithShader                                       *)
(***************************************************************************)
\* A draw whose reversal negates the scale and leaves the offset.
BlitDraw_NegateOnly(m, in, sourceArea0, destArea, inBoundsSource, reverseX, reverseY) ==
    LET blitProgram == m.engine.mBlitPrograms["FLOAT_TO_FLOAT"]
        textureId == m.engine.mScratchTextures[1]
        a == bindFramebuffer(m, "GL_READ_FRAMEBUFFER", SourceFramebufferID)
        b == bindTexture(a, "_2D", textureId)
        c == DefineImage(b, "copyTexImage2D", "_2D", inBoundsSource.width,
                         inBoundsSource.height)
        sourceArea == [sourceArea0 EXCEPT !.x = @ - inBoundsSource.x,
                                          !.y = @ - inBoundsSource.y]
        d == setScratchTextureParameter(c, "minFilter", in.filter)
        e == setScratchTextureParameter(d, "magFilter", in.filter)
        f == setScratchTextureParameter(e, "wrapS", "GL_CLAMP_TO_EDGE")
        g == setScratchTextureParameter(f, "wrapT", "GL_CLAMP_TO_EDGE")
        offset0 == [x |-> sourceArea.x, y |-> sourceArea.y]
        scale0 == [x |-> sourceArea.width, y |-> sourceArea.height]
        offsetX == offset0.x
        scaleX == IF reverseX THEN -scale0.x ELSE scale0.x
        offsetY == offset0.y
        scaleY == IF reverseY THEN -scale0.y ELSE scale0.y
        texCoordOffset == Vector2(Quot(offsetX, inBoundsSource.width),
                                  Quot(offsetY, inBoundsSource.height))
        texCoordScale == Vector2(Quot(scaleX, inBoundsSource.width),
                                 Quot(scaleY, inBoundsSource.height))
        h == ScopedGLState(g, destArea, {"KEEP_SCISSOR"}, in.pauseOK)
        i == willUseTextureUnit(h, 0)
        j == activeTexture(i, 0)
        k == bindTexture(j, "_2D", textureId)
        l == useProgram(k, blitProgram.program)
        n == uniform(l, blitProgram.sourceTextureLocation, 0)
        o == uniform(n, blitProgram.scaleLocation, texCoordScale)
        p == uniform(o, blitProgram.offsetLocation, texCoordOffset)
        q == uniform(p, blitProgram.multiplyAlphaLocation, 0)
        r == uniform(q, blitProgram.unMultiplyAlphaLocation, 0)
        s == bindFramebuffer(r, "GL_DRAW_FRAMEBUFFER", DestFramebufferID)
        t == bindVertexArray(s, m.engine.mVAO)
    IN Run(<<c, e, g, h, p,
             Return(ScopedGLStateDtor(drawArrays(t, 3), in.resumeOK), "NoError")>>)

BlitDraw(m, in, sourceArea0, destArea, inBoundsSource, reverseX, reverseY) ==
    LET blitProgram == m.engine.mBlitPrograms["FLOAT_TO_FLOAT"]
        textureId == m.engine.mScratchTextures[1]
        a == bindFramebuffer(m, "GL_READ_FRAMEBUFFER", SourceFramebufferID)
        b == bindTexture(a, "_2D", textureId)
        c == DefineImage(b, "copyTexImage2D", "_2D", inBoundsSource.width,
                         inBoundsSource.height)
        sourceArea == [sourceArea0 EXCEPT !.x = @ - inBoundsSource.x,
                                          !.y = @ - inBoundsSource.y]
        d == setScratchTextureParameter(c, "minFilter", in.filter)
        e == setScratchTextureParameter(d, "magFilter", in.filter)
        f == setScratchTextureParameter(e, "wrapS", "GL_CLAMP_TO_EDGE")
        g == setScratchTextureParameter(f, "wrapT", "GL_CLAMP_TO_EDGE")
        offset0 == [x |-> sourceArea.x, y |-> sourceArea.y]
        scale0 == [x |-> sourceArea.width, y |-> sourceArea.height]
        offsetX == IF reverseX THEN offset0.x + scale0.x ELSE offset0.x
        scaleX == IF reverseX THEN -scale0.x ELSE scale0.x
        offsetY == IF reverseY THEN offset0.y + scale0.y ELSE offset0.y
        scaleY == IF reverseY THEN -scale0.y ELSE scale0.y
        texCoordOffset == Vector2(Quot(offsetX, inBoundsSource.width),
                                  Quot(offsetY, inBoundsSource.height))
        texCoordScale == Vector2(Quot(scaleX, inBoundsSource.width),
                                 Quot(scaleY, inBoundsSource.height))
        h == ScopedGLState(g, destArea, {"KEEP_SCISSOR"}, in.pauseOK)
        i == willUseTextureUnit(h, 0)
        j == activeTexture(i, 0)
        k == bindTexture(j, "_2D", textureId)
        l == useProgram(k, blitProgram.program)
        n == uniform(l, blitProgram.sourceTextureLocation, 0)
        o == uniform(n, blitProgram.scaleLocation, texCoordScale)
        p == uniform(o, blitProgram.offsetLocation, texCoordOffset)
        q == uniform(p, blitProgram.multiplyAlphaLocation, 0)
        r == uniform(q, blitProgram.unMultiplyAlphaLocation, 0)
        s == bindFramebuffer(r, "GL_DRAW_FRAMEBUFFER", DestFramebufferID)
        t == bindVertexArray(s, m.engine.mVAO)
    IN Run(<<c, e, g, h, p,
             Return(ScopedGLStateDtor(drawArrays(t, 3), in.resumeOK), "NoError")>>)

\* A blitColorBufferWithShader that takes the reversal from the source
\* rectangle alone.
blitColorBufferWithShader_SourceSense(m, in) ==
    LET a == initializeResources(m)
        b == getBlitProgram(a, "FLOAT_TO_FLOAT", in.fail)
        reverseX == isReversedX(in.sourceAreaIn)
        reverseY == isReversedY(in.sourceAreaIn)
        sourceArea == removeReversal(in.sourceAreaIn)
        destArea == removeReversal(in.destAreaIn)
        sourceBounds == Rect(0, 0, in.sourceSize.width, in.sourceSize.height)
        clip == ClipRectangle(sourceArea, sourceBounds)
        Blit(program) ==
            IF program.err THEN Return(program, "Error")
            ELSE IF ~clip.ok THEN Return(program, "NoError")
            ELSE BlitDraw(program, in, sourceArea, destArea, clip.intersection,
                          reverseX, reverseY)
    IN Run(<<a, b, Blit(b)>>)

\* A blitColorBufferWithShader whose early out tests the source rectangle in
\* place of the clipped one.
blitColorBufferWithShader_EmptySourceTest(m, in) ==
    LET a == initializeResources(m)
        b == getBlitProgram(a, "FLOAT_TO_FLOAT", in.fail)
        reverseX == isReversedX(in.sourceAreaIn) # isReversedX(in.destAreaIn)
        reverseY == isReversedY(in.sourceAreaIn) # isReversedY(in.destAreaIn)
        sourceArea == removeReversal(in.sourceAreaIn)
        destArea == removeReversal(in.destAreaIn)
        sourceBounds == Rect(0, 0, in.sourceSize.width, in.sourceSize.height)
        clip == ClipRectangle(sourceArea, sourceBounds)
        Blit(program) ==
            IF program.err THEN Return(program, "Error")
            ELSE IF sourceArea.width = 0 \/ sourceArea.height = 0
              THEN Return(program, "NoError")
            ELSE BlitDraw(program, in, sourceArea, destArea, clip.intersection,
                          reverseX, reverseY)
    IN Run(<<a, b, Blit(b)>>)

\* A blitColorBufferWithShader that goes on when the clip is empty.
blitColorBufferWithShader_NoClipTest(m, in) ==
    LET a == initializeResources(m)
        b == getBlitProgram(a, "FLOAT_TO_FLOAT", in.fail)
        reverseX == isReversedX(in.sourceAreaIn) # isReversedX(in.destAreaIn)
        reverseY == isReversedY(in.sourceAreaIn) # isReversedY(in.destAreaIn)
        sourceArea == removeReversal(in.sourceAreaIn)
        destArea == removeReversal(in.destAreaIn)
        sourceBounds == Rect(0, 0, in.sourceSize.width, in.sourceSize.height)
        clip == ClipRectangle(sourceArea, sourceBounds)
        Blit(program) ==
            IF program.err THEN Return(program, "Error")
            ELSE BlitDraw(program, in, sourceArea, destArea, clip.intersection,
                          reverseX, reverseY)
    IN Run(<<a, b, Blit(b)>>)

blitColorBufferWithShader(m, in) ==
    LET a == initializeResources(m)
        b == getBlitProgram(a, "FLOAT_TO_FLOAT", in.fail)
        reverseX == isReversedX(in.sourceAreaIn) # isReversedX(in.destAreaIn)
        reverseY == isReversedY(in.sourceAreaIn) # isReversedY(in.destAreaIn)
        sourceArea == removeReversal(in.sourceAreaIn)
        destArea == removeReversal(in.destAreaIn)
        sourceBounds == Rect(0, 0, in.sourceSize.width, in.sourceSize.height)
        clip == ClipRectangle(sourceArea, sourceBounds)
        Blit(program) ==
            IF program.err THEN Return(program, "Error")
            ELSE IF ~clip.ok THEN Return(program, "NoError")
            ELSE BlitDraw(program, in, sourceArea, destArea, clip.intersection,
                          reverseX, reverseY)
    IN Run(<<a, b, Blit(b)>>)

(***************************************************************************)
(* BlitGL::copySubTexture                                                  *)
(* in.complete: checkFramebufferStatus reports GL_FRAMEBUFFER_COMPLETE;    *)
(* in.baseLevelOK: TextureGL::setBaseLevel returns no error.               *)
(***************************************************************************)
LumaSourceSwizzle(lumaFormat) ==
    LET luminance == IF lumaFormat = "GL_ALPHA" THEN "GL_ZERO" ELSE "GL_RED"
        alpha == IF lumaFormat = "GL_LUMINANCE" THEN "GL_ONE"
                 ELSE IF lumaFormat = "GL_LUMINANCE_ALPHA" THEN "GL_GREEN"
                 ELSE "GL_RED"
    IN <<luminance, luminance, luminance, alpha>>

SetupSourceTexture(m, in) ==
    LET a == IF in.needsLumaWorkaround
               THEN Emit([m EXCEPT !.src.swizzle = LumaSourceSwizzle(in.lumaFormat)],
                         "setSwizzle", LumaSourceSwizzle(in.lumaFormat))
               ELSE m
        b == Emit([a EXCEPT !.src.minFilter = "GL_NEAREST"], "setMinFilter", "GL_NEAREST")
        c == Emit([b EXCEPT !.src.magFilter = "GL_NEAREST"], "setMagFilter", "GL_NEAREST")
    IN IF in.baseLevelOK
         THEN Emit([c EXCEPT !.src.baseLevel = in.sourceLevel], "setBaseLevel", in.sourceLevel)
         ELSE [Emit(c, "setBaseLevel", in.sourceLevel) EXCEPT !.err = TRUE]

\* A draw of copySubTexture whose flip negates the scale and leaves the offset.
CopySubTextureDraw_NegateOnly(m, in, blitProgramType) ==
    LET blitProgram == m.engine.mBlitPrograms[blitProgramType]
        sourceArea == in.sourceArea
        sourceSize == in.sourceSize
        a == ScopedGLState(m, Rect(in.destOffset.x, in.destOffset.y, sourceArea.width,
                                   sourceArea.height), {}, in.pauseOK)
        b == willUseTextureUnit(a, 0)
        c == activeTexture(b, 0)
        d == bindTexture(c, "_2D", SourceTextureID)
        scaleY0 == sourceArea.height
        offsetY0 == sourceArea.y
        offsetY == offsetY0
        scaleY == IF in.unpackFlipY THEN -scaleY0 ELSE scaleY0
        scale == Vector2(Quot(sourceArea.width, sourceSize.width),
                         Quot(scaleY, sourceSize.height))
        offset == Vector2(Quot(sourceArea.x, sourceSize.width),
                          Quot(offsetY, sourceSize.height))
        e == useProgram(d, blitProgram.program)
        f == uniform(e, blitProgram.sourceTextureLocation, 0)
        g == uniform(f, blitProgram.scaleLocation, scale)
        h == uniform(g, blitProgram.offsetLocation, offset)
        same == in.unpackPremultiplyAlpha = in.unpackUnmultiplyAlpha
        i == uniform(h, blitProgram.multiplyAlphaLocation,
                     IF ~same /\ in.unpackPremultiplyAlpha THEN 1 ELSE 0)
        j == uniform(i, blitProgram.unMultiplyAlphaLocation,
                     IF ~same /\ in.unpackUnmultiplyAlpha THEN 1 ELSE 0)
        k == bindVertexArray(j, m.engine.mVAO)
    IN Run(<<a, e, h, Return(ScopedGLStateDtor(drawArrays(k, 3), in.resumeOK), "true")>>)

\* A draw of copySubTexture that passes the two alpha flags as they are.
CopySubTextureDraw_RawFlags(m, in, blitProgramType) ==
    LET blitProgram == m.engine.mBlitPrograms[blitProgramType]
        sourceArea == in.sourceArea
        sourceSize == in.sourceSize
        a == ScopedGLState(m, Rect(in.destOffset.x, in.destOffset.y, sourceArea.width,
                                   sourceArea.height), {}, in.pauseOK)
        d == bindTexture(activeTexture(willUseTextureUnit(a, 0), 0), "_2D", SourceTextureID)
        offsetY == IF in.unpackFlipY THEN sourceArea.y + sourceArea.height ELSE sourceArea.y
        scaleY == IF in.unpackFlipY THEN -sourceArea.height ELSE sourceArea.height
        e == useProgram(d, blitProgram.program)
        f == uniform(e, blitProgram.sourceTextureLocation, 0)
        g == uniform(f, blitProgram.scaleLocation,
                     Vector2(Quot(sourceArea.width, sourceSize.width),
                             Quot(scaleY, sourceSize.height)))
        h == uniform(g, blitProgram.offsetLocation,
                     Vector2(Quot(sourceArea.x, sourceSize.width),
                             Quot(offsetY, sourceSize.height)))
        i == uniform(h, blitProgram.multiplyAlphaLocation,
                     IF in.unpackPremultiplyAlpha THEN 1 ELSE 0)
        j == uniform(i, blitProgram.unMultiplyAlphaLocation,
                     IF in.unpackUnmultiplyAlpha THEN 1 ELSE 0)
        k == bindVertexArray(j, m.engine.mVAO)
    IN Run(<<a, e, h, Return(ScopedGLStateDtor(drawArrays(k, 3), in.resumeOK), "true")>>)

CopySubTextureDraw(m, in, blitProgramType) ==
    LET blitProgram == m.engine.mBlitPrograms[blitProgramType]
        sourceArea == in.sourceArea
        sourceSize == in.sourceSize
        a == ScopedGLState(m, Rect(in.destOffset.x, in.destOffset.y, sourceArea.width,
                                   sourceArea.height), {}, in.pauseOK)
        b == willUseTextureUnit(a, 0)
        c == activeTexture(b, 0)
        d == bindTexture(c, "_2D", SourceTextureID)
        scaleY0 == sourceArea.height
        offsetY0 == sourceArea.y
        offsetY == IF in.unpackFlipY THEN offsetY0 + scaleY0 ELSE offsetY0
        scaleY == IF in.unpackFlipY THEN -scaleY0 ELSE scaleY0
        scale == Vector2(Quot(sourceArea.width, sourceSize.width),
                         Quot(scaleY, sourceSize.height))
        offset == Vector2(Quot(sourceArea.x, sourceSize.width),
                          Quot(offsetY, sourceSize.height))
        e == useProgram(d, blitProgram.program)
        f == uniform(e, blitProgram.sourceTextureLocation, 0)
        g == uniform(f, blitProgram.scaleLocation, scale)
        h == uniform(g, blitProgram.offsetLocation, offset)
        same == in.unpackPremultiplyAlpha = in.unpackUnmultiplyAlpha
        i == uniform(h, blitProgram.multiplyAlphaLocation,
                     IF ~same /\ in.unpackPremultiplyAlpha THEN 1 ELSE 0)
        j == uniform(i, blitProgram.unMultiplyAlphaLocation,
                     IF ~same /\ in.unpackUnmultiplyAlpha THEN 1 ELSE 0)
        k == bindVertexArray(j, m.engine.mVAO)
    IN Run(<<a, e, h, Return(ScopedGLStateDtor(drawArrays(k, 3), in.resumeOK), "true")>>)

\* A copySubTexture that gets the program before it checks the framebuffer.
copySubTexture_ProgramFirst(m, in) ==
    LET a == initializeResources(m)
        blitProgramType == getBlitProgramType(in.sourceComponentType, in.destComponentType)
        b == getBlitProgram(a, blitProgramType, in.fail)
        Draw(source) ==
            IF source.err THEN Return(source, "Error")
            ELSE CopySubTextureDraw(source, in, blitProgramType)
        Status(checked) ==
            IF ~in.complete THEN Return(checked, "false")
            ELSE Draw(SetupSourceTexture(checked, in))
        Check(program) ==
            IF program.err THEN Return(program, "Error")
            ELSE Status(Emit(Attach(bindFramebuffer(program, "GL_FRAMEBUFFER",
                                                    program.engine.mScratchFBO),
                                    "framebufferTexture2D", "GL_COLOR_ATTACHMENT0",
                                    [kind |-> "texture", name |-> DestTextureID, layer |-> -1]),
                             "checkFramebufferStatus", in.complete))
    IN Run(<<a, b, Check(b)>>)

copySubTexture(m, in) ==
    LET a == initializeResources(m)
        blitProgramType == getBlitProgramType(in.sourceComponentType, in.destComponentType)
        Check(ready) ==
            Emit(Attach(bindFramebuffer(ready, "GL_FRAMEBUFFER", ready.engine.mScratchFBO),
                        "framebufferTexture2D", "GL_COLOR_ATTACHMENT0",
                        [kind |-> "texture", name |-> DestTextureID, layer |-> -1]),
                 "checkFramebufferStatus", in.complete)
        Draw(source) ==
            IF source.err THEN Return(source, "Error")
            ELSE CopySubTextureDraw(source, in, blitProgramType)
        Source(program) ==
            IF program.err THEN Return(program, "Error")
            ELSE Draw(SetupSourceTexture(program, in))
        Status(checked) ==
            IF ~in.complete THEN Return(checked, "false")
            ELSE Source(getBlitProgram(checked, blitProgramType, in.fail))
        b == Check(a)
    IN Run(<<a, b, Status(b)>>)

(***************************************************************************)
(* BlitGL::copySubTextureCPUReadback                                       *)
(* in.allocOK: Context::getScratchBuffer succeeds.                         *)
(***************************************************************************)
copySubTextureCPUReadback(m, in) ==
    LET a == initializeResources(m)
        Check(ready) ==
            Emit(Attach(bindFramebuffer(ready, "GL_FRAMEBUFFER", ready.engine.mScratchFBO),
                        "framebufferTexture2D", "GL_COLOR_ATTACHMENT0",
                        [kind |-> "texture", name |-> SourceTextureID, layer |-> -1]),
                 "checkFramebufferStatus", TRUE)
        readPixelsFormat == IF in.sourceComponentType = "GL_UNSIGNED_INT"
                              THEN "GL_RGBA_INTEGER" ELSE "GL_RGBA"
        ReadPixels(from) ==
            Emit(from, "readPixels", [format |-> readPixelsFormat, area |-> in.sourceArea,
                                      pack |-> from.bind.pack, unpack |-> from.bind.unpack,
                                      fbo |-> from.bind.readFBO])
        TexSubImage2D(to) ==
            Emit(to, "texSubImage2D", [area |-> in.sourceArea, offset |-> in.destOffset,
                                       pack |-> to.bind.pack, unpack |-> to.bind.unpack])
        Copy(checked) ==
            LET e == Emit([checked EXCEPT !.bind.unpack = [alignment |-> 1, buffer |-> @.buffer]],
                          "setPixelUnpackState", 1)
                f == Emit([e EXCEPT !.bind.unpack.buffer = 0], "setPixelUnpackBuffer", 0)
                g == ReadPixels(f)
                h == Emit(g, "CopyImageCHROMIUM",
                          [flipY |-> in.unpackFlipY,
                           premultiply |-> in.unpackPremultiplyAlpha,
                           unmultiply |-> in.unpackUnmultiplyAlpha])
                i == Emit([h EXCEPT !.bind.pack = [alignment |-> 1, buffer |-> @.buffer]],
                          "setPixelPackState", 1)
                j == Emit([i EXCEPT !.bind.pack.buffer = 0], "setPixelPackBuffer", 0)
            IN Return(TexSubImage2D(bindTexture(j, "_2D", DestTextureID)), "NoError")
        b == Check(a)
    IN Run(<<a, b, IF ~in.allocOK THEN Return(b, "Error") ELSE Copy(b)>>)

(***************************************************************************)
(* BlitGL::copyTexSubImage                                                 *)
(***************************************************************************)
\* A copyTexSubImage that copies whatever the framebuffer status.
copyTexSubImage_Unchecked(m, in) ==
    LET a == initializeResources(m)
        Check(ready) ==
            Emit(Attach(bindFramebuffer(ready, "GL_FRAMEBUFFER", ready.engine.mScratchFBO),
                        "framebufferTexture2D", "GL_COLOR_ATTACHMENT0",
                        [kind |-> "texture", name |-> SourceTextureID, layer |-> -1]),
                 "checkFramebufferStatus", in.complete)
        Copy(checked) ==
            Return(Emit(bindTexture(checked, "_2D", DestTextureID), "copyTexSubImage2D",
                        [target |-> "_2D", area |-> in.sourceArea]), "true")
    IN Run(<<a, Copy(Check(a))>>)

copyTexSubImage(m, in) ==
    LET a == initializeResources(m)
        Check(ready) ==
            Emit(Attach(bindFramebuffer(ready, "GL_FRAMEBUFFER", ready.engine.mScratchFBO),
                        "framebufferTexture2D", "GL_COLOR_ATTACHMENT0",
                        [kind |-> "texture", name |-> SourceTextureID, layer |-> -1]),
                 "checkFramebufferStatus", in.complete)
        Copy(checked) ==
            IF ~in.complete THEN Return(checked, "false")
            ELSE Return(Emit(bindTexture(checked, "_2D", DestTextureID), "copyTexSubImage2D",
                             [target |-> "_2D", area |-> in.sourceArea]), "true")
    IN Run(<<a, Copy(Check(a))>>)

(***************************************************************************)
(* BlitGL::clearRenderableTexture                                          *)
(* in.type: the texture's type; in.imageIndex: hasLayer, layerIndex,       *)
(* layerCount; in.complete: the framebuffer status by attached layer (by   *)
(* layer 0 for an attachment that names no layer).                         *)
(***************************************************************************)
UseTexImage2D(type) == type \in {"_2D", "CubeMap"}

\* A ClearLayers that attaches layer 0 .. layerCount-1 whatever firstLayer is.
RECURSIVE ClearLayers_FromZero(_, _, _, _, _, _, _)
ClearLayers_FromZero(m, in, bindTargets, clearMask, firstLayer, layerCount, layer) ==
    IF layer >= layerCount THEN m
    ELSE LET Status(checked) ==
                 IF in.complete[layer]
                   THEN ClearLayers_FromZero(clear(checked, clearMask), in, bindTargets,
                                             clearMask, firstLayer, layerCount, layer + 1)
                   ELSE Return(UnbindAttachments(checked, bindTargets, 1), "false")
         IN Status(Emit(BindAttachments(m, "framebufferTextureLayer", bindTargets,
                                        [kind |-> "layer", name |-> SourceTextureID,
                                         layer |-> layer], 1),
                        "checkFramebufferStatus", in.complete[layer]))

\* A ClearLayers that clears a layer before it looks at the framebuffer status.
RECURSIVE ClearLayers_ClearThenCheck(_, _, _, _, _, _, _)
ClearLayers_ClearThenCheck(m, in, bindTargets, clearMask, firstLayer, layerCount, layer) ==
    IF layer >= layerCount THEN m
    ELSE LET Status(cleared) ==
                 IF in.complete[layer + firstLayer]
                   THEN ClearLayers_ClearThenCheck(cleared, in, bindTargets, clearMask,
                                                   firstLayer, layerCount, layer + 1)
                   ELSE Return(UnbindAttachments(cleared, bindTargets, 1), "false")
         IN Status(clear(Emit(BindAttachments(m, "framebufferTextureLayer", bindTargets,
                                              [kind |-> "layer", name |-> SourceTextureID,
                                               layer |-> layer + firstLayer], 1),
                              "checkFramebufferStatus", in.complete[layer + firstLayer]),
                         clearMask))

RECURSIVE ClearLayers(_, _, _, _, _, _, _)
ClearLayers(m, in, bindTargets, clearMask, firstLayer, layerCount, layer) ==
    IF layer >= layerCount THEN m
    ELSE LET Status(checked) ==
                 IF in.complete[layer + firstLayer]
                   THEN ClearLayers(clear(checked, clearMask), in, bindTargets, clearMask,
                                    firstLayer, layerCount, layer + 1)
                   ELSE Return(UnbindAttachments(checked, bindTargets, 1), "false")
         IN Status(Emit(BindAttachments(m, "framebufferTextureLayer", bindTargets,
                                        [kind |-> "layer", name |-> SourceTextureID,
                                         layer |-> layer + firstLayer], 1),
                        "checkFramebufferStatus", in.complete[layer + firstLayer]))

\* One attachment of the whole image (2D, or a whole level) and one clear.
ClearWhole(m, in, c, bindTargets, clearMask, att) ==
    LET Status(checked) ==
            IF in.complete[0]
              THEN clear(checked, clearMask)
              ELSE Return(UnbindAttachments(checked, bindTargets, 1), "false")
    IN Status(Emit(BindAttachments(m, c, bindTargets, att, 1),
                   "checkFramebufferStatus", in.complete[0]))

\* A clearRenderableTexture that attaches the whole level whenever the device can,
\* whether or not the image index names a layer.
clearRenderableTexture_WholeLevel(m, in) ==
    LET a == initializeResources(m)
        bindTargets == BindTargets(in.sizedInternalFormat)
        clearMask == PrepareClearMask(in.sizedInternalFormat)
        b == PrepareForClear(a, in.sizedInternalFormat)
        Clear(bound) ==
            IF UseTexImage2D(in.type)
              THEN ClearWhole(bound, in, "framebufferTexture2D", bindTargets, clearMask,
                              [kind |-> "texture", name |-> SourceTextureID, layer |-> -1])
            ELSE IF bound.objs.caps.framebufferTexture
              THEN ClearWhole(bound, in, "framebufferTexture", bindTargets, clearMask,
                              [kind |-> "level", name |-> SourceTextureID, layer |-> -1])
            ELSE LET firstLayer == IF in.imageIndex.hasLayer
                                     THEN in.imageIndex.layerIndex ELSE 0
                     layerCount == IF in.imageIndex.hasLayer
                                     THEN in.imageIndex.layerCount ELSE in.numTextureLayers
                 IN ClearLayers(bound, in, bindTargets, clearMask, firstLayer, layerCount, 0)
        Done(cleared) ==
            IF cleared.result = "false" THEN cleared
            ELSE Return(UnbindAttachments(cleared, bindTargets, 1), "true")
    IN Run(<<a, b, Done(Clear(bindFramebuffer(b, "GL_FRAMEBUFFER", a.engine.mScratchFBO)))>>)

clearRenderableTexture(m, in) ==
    LET a == initializeResources(m)
        bindTargets == BindTargets(in.sizedInternalFormat)
        clearMask == PrepareClearMask(in.sizedInternalFormat)
        b == PrepareForClear(a, in.sizedInternalFormat)
        Clear(bound) ==
            IF UseTexImage2D(in.type)
              THEN ClearWhole(bound, in, "framebufferTexture2D", bindTargets, clearMask,
                              [kind |-> "texture", name |-> SourceTextureID, layer |-> -1])
            ELSE IF bound.objs.caps.framebufferTexture /\ ~in.imageIndex.hasLayer
              THEN ClearWhole(bound, in, "framebufferTexture", bindTargets, clearMask,
                              [kind |-> "level", name |-> SourceTextureID, layer |-> -1])
            ELSE LET firstLayer == IF in.imageIndex.hasLayer
                                     THEN in.imageIndex.layerIndex ELSE 0
                     layerCount == IF in.imageIndex.hasLayer
                                     THEN in.imageIndex.layerCount ELSE in.numTextureLayers
                 IN ClearLayers(bound, in, bindTargets, clearMask, firstLayer, layerCount, 0)
        Done(cleared) ==
            IF cleared.result = "false" THEN cleared
            ELSE Return(UnbindAttachments(cleared, bindTargets, 1), "true")
    IN Run(<<a, b, Done(Clear(bindFramebuffer(b, "GL_FRAMEBUFFER", a.engine.mScratchFBO)))>>)

(***************************************************************************)
(* BlitGL::clearRenderbuffer, BlitGL::clearFramebuffer                     *)
(***************************************************************************)
clearRenderbuffer(m, in) ==
    LET a == initializeResources(m)
        bindTargets == BindTargets(in.sizedInternalFormat)
        clearMask == PrepareClearMask(in.sizedInternalFormat)
        b == PrepareForClear(a, in.sizedInternalFormat)
        c == bindFramebuffer(b, "GL_FRAMEBUFFER", a.engine.mScratchFBO)
        d == BindAttachments(c, "framebufferRenderbuffer", bindTargets,
                             [kind |-> "renderbuffer", name |-> RenderbufferID, layer |-> -1], 1)
        e == clear(d, clearMask)
        f == BindAttachments(e, "framebufferRenderbuffer", bindTargets, NoAttachment, 1)
    IN Run(<<a, b, Return(f, "NoError")>>)

\* A clearFramebuffer that begins with initializeResources, as the other
\* methods do.
clearFramebuffer_Initialized(m) ==
    LET clearMask == ClearMask(TRUE, TRUE, TRUE)
        a == SetClearState(initializeResources(m), TRUE, TRUE, TRUE)
        b == bindFramebuffer(a, "GL_FRAMEBUFFER", ClearFramebufferID)
    IN Return(clear(b, clearMask), "NoError")

clearFramebuffer(m) ==
    LET clearMask == ClearMask(TRUE, TRUE, TRUE)
        a == SetClearState(m, TRUE, TRUE, TRUE)
        b == bindFramebuffer(a, "GL_FRAMEBUFFER", ClearFramebufferID)
    IN Return(clear(b, clearMask), "NoError")

(***************************************************************************)
(* The fragment shader getBlitProgram writes, as the device runs it on one *)
(* sample: main() of the text, from the sampled colour to the output.  The *)
(* discard of a texture coordinate outside (0, 1)^2 comes before the       *)
(* sample and is left out.  A channel is an exact fraction; the channels   *)
(* of a uvec4 are whole numbers and their division truncates.              *)
(***************************************************************************)
RECURSIVE Gcd(_, _)
Gcd(a, b) == IF b = 0 THEN a ELSE Gcd(b, a % b)

\* The fraction n / d in lowest terms, d > 0.
Frac(n, d) ==
    LET g == Gcd(IF n < 0 THEN -n ELSE n, d)
    IN [num |-> n \div g, den |-> d \div g]

Times(p, q) == Frac(p.num * q.num, p.den * q.den)

Over(p, q, whole) ==
    IF whole THEN Frac((p.num * q.den) \div (p.den * q.num), 1)
    ELSE Frac(p.num * q.den, p.den * q.num)

\* if (u_multiply_alpha) color.xyz = color.xyz * color.a;
MultiplyAlpha(color, u_multiply_alpha) ==
    IF u_multiply_alpha
      THEN [color EXCEPT !.x = Times(@, color.a), !.y = Times(@, color.a),
                         !.z = Times(@, color.a)]
      ELSE color

\* An unmultiply that divides by at least 1/256 in place of the test of alpha.
UnmultiplyAlpha_Clamped(source, color, u_unmultiply_alpha) ==
    LET whole == source.samplerResultType = "uvec4"
        a == IF color.a.num = 0 THEN Frac(1, 256) ELSE color.a
    IN IF u_unmultiply_alpha
         THEN [color EXCEPT !.x = Over(@, a, whole), !.y = Over(@, a, whole),
                            !.z = Over(@, a, whole)]
         ELSE color

\* if (u_unmultiply_alpha && color.a != 0.0) color.xyz = color.xyz / color.a;
UnmultiplyAlpha(source, color, u_unmultiply_alpha) ==
    LET whole == source.samplerResultType = "uvec4"
    IN IF u_unmultiply_alpha /\ color.a.num # 0
         THEN [color EXCEPT !.x = Over(@, color.a, whole), !.y = Over(@, color.a, whole),
                            !.z = Over(@, color.a, whole)]
         ELSE color

\* color = color * outputMultiplier; outputVariableName = outputType(color);
OutputColor(source, color) ==
    LET multiplier == IF source.outputMultiplier = "255.0" THEN Frac(255, 1) ELSE Frac(1, 1)
        Convert(c) == IF source.outputType = "uvec4" THEN Frac(c.num \div c.den, 1) ELSE c
    IN [i \in DOMAIN color |-> Convert(Times(color[i], multiplier))]

FragmentMain(source, color, u_multiply_alpha, u_unmultiply_alpha) ==
    OutputColor(source,
                UnmultiplyAlpha(source, MultiplyAlpha(color, u_multiply_alpha),
                                u_unmultiply_alpha))

(***************************************************************************)
(* The environment: device capabilities, the state the caller leaves the   *)
(* device in, and the inputs of each public method.                        *)
(***************************************************************************)
Caps == {[standard |-> "STANDARD_GL_DESKTOP", bindSampler |-> TRUE, framebufferTexture |-> TRUE],
         [standard |-> "STANDARD_GL_ES", bindSampler |-> FALSE, framebufferTexture |-> FALSE]}

\* Names of caller-owned objects that may be bound when a call starts.
Caller == [texture |-> 29, sampler |-> 51, program |-> 61, vao |-> 71, buffer |-> 81,
           framebuffer |-> 14, unpackBuffer |-> 41, packBuffer |-> 42]

RenderDefault ==
    [scissorTest |-> FALSE, viewport |-> Rect(0, 0, 4, 4), depthRange |-> <<0, 1>>,
     blend |-> FALSE, colorMask |-> <<TRUE, TRUE, TRUE, TRUE>>,
     sampleAlphaToCoverage |-> FALSE, sampleCoverage |-> FALSE, depthTest |-> FALSE,
     stencilTest |-> FALSE, cullFace |-> FALSE, polygonOffsetFill |-> FALSE,
     rasterizerDiscard |-> FALSE, transformFeedbackPaused |-> FALSE, queriesPaused |-> FALSE,
     clearColor |-> <<0, 0, 0, 0>>, depthMask |-> TRUE, clearDepth |-> 1, clearStencil |-> 0]

RenderBusy ==
    [scissorTest |-> TRUE, viewport |-> Rect(1, 1, 3, 3), depthRange |-> <<1, 0>>,
     blend |-> TRUE, colorMask |-> <<FALSE, TRUE, FALSE, TRUE>>,
     sampleAlphaToCoverage |-> TRUE, sampleCoverage |-> TRUE, depthTest |-> TRUE,
     stencilTest |-> TRUE, cullFace |-> TRUE, polygonOffsetFill |-> TRUE,
     rasterizerDiscard |-> TRUE, transformFeedbackPaused |-> FALSE, queriesPaused |-> FALSE,
     clearColor |-> <<1, 1, 1, 1>>, depthMask |-> FALSE, clearDepth |-> 0, clearStencil |-> 1]

BindDefault ==
    [activeUnit |-> 0,
     texture |-> [u \in 0..1 |-> [t \in TextureTypes |-> 0]],
     sampler |-> [u \in 0..1 |-> 0],
     program |-> 0, vao |-> 0, arrayBuffer |-> 0, drawFBO |-> 0, readFBO |-> 0,
     unpack |-> DefaultUnpack, pack |-> DefaultPack]

BindBusy ==
    [activeUnit |-> 1,
     texture |-> [u \in 0..1 |-> [t \in TextureTypes |-> Caller.texture]],
     sampler |-> [u \in 0..1 |-> Caller.sampler],
     program |-> Caller.program, vao |-> Caller.vao, arrayBuffer |-> Caller.buffer,
     drawFBO |-> Caller.framebuffer, readFBO |-> Caller.framebuffer,
     unpack |-> [alignment |-> 8, buffer |-> Caller.unpackBuffer],
     pack |-> [alignment |-> 8, buffer |-> Caller.packBuffer]]

SourceDefault == [swizzle |-> <<"GL_RED", "GL_GREEN", "GL_BLUE", "GL_ALPHA">>,
                  minFilter |-> "GL_LINEAR", magFilter |-> "GL_LINEAR", baseLevel |-> 0]

\* A sampler object can be bound only on a device that has sampler objects.
CallerStates(caps) ==
    {[rs |-> RenderDefault, bind |-> BindDefault],
     [rs |-> RenderBusy,
      bind |-> IF caps.bindSampler THEN BindBusy
               ELSE [BindBusy EXCEPT !.sampler = [u \in 0..1 |-> 0]]]}

\* What the device does in one call: at most one step fails, except that
\* pausing and resuming queries may both fail.  fail: the step of
\* getBlitProgram that fails; stepOK: the method's other fallible step.
Fails == {"none", "vs", "fs", "link"}

Outcomes ==
    {o \in [fail : Fails, stepOK : BOOLEAN, pauseOK : BOOLEAN, resumeOK : BOOLEAN] :
        /\ o.fail # "none" => o.stepOK /\ o.pauseOK /\ o.resumeOK
        /\ ~o.stepOK => o.pauseOK /\ o.resumeOK}

OK == [fail |-> "none", stepOK |-> TRUE, pauseOK |-> TRUE, resumeOK |-> TRUE]

LumaInput(t, f, o) ==
    [texture |-> DestTextureID, textureType |-> t, target |-> t, lumaFormat |-> f,
     sourceArea |-> Rect(1, 0, 2, 1), destOffset |-> [x |-> 0, y |-> 1, z |-> 0],
     unpackBuffer |-> 0,
     fail |-> o.fail, readFail |-> IF o.stepOK THEN "none" ELSE "format",
     pauseOK |-> o.pauseOK, resumeOK |-> o.resumeOK]

LumaInputs ==
    {LumaInput(t, f, OK) : t \in {"_2D", "_3D"}, f \in LumaFormats}
      \cup {LumaInput("_2D", "GL_LUMINANCE_ALPHA", o) : o \in Outcomes}

LumaImageInputs ==
    {[LumaInput("_2D", "GL_LUMINANCE", OK) EXCEPT !.unpackBuffer = b] :
        b \in {0, Caller.unpackBuffer}}
      \cup {[LumaInput("_2D", "GL_ALPHA", OK) EXCEPT !.readFail = "imageType"]}

\* The read attachment is 2 x 2.  Source rectangles: inside, reversed in X, in
\* Y, partly outside, and outside the attachment.
ReadAttachmentSize == [width |-> 2, height |-> 2]

BlitSourceAreas == {Rect(0, 0, 2, 2), Rect(2, 0, -2, 2), Rect(0, 2, 2, -2),
                    Rect(2, 2, -2, -2), Rect(-1, 1, 2, 1), Rect(2, 0, 2, 2),
                    Rect(0, -1, 1, -2)}

BlitDestAreas == {Rect(0, 0, 2, 2), Rect(3, 3, -2, -2), Rect(3, 1, -2, 2)}

BlitInput(s, d, f, o) ==
    [sourceAreaIn |-> s, destAreaIn |-> d, filter |-> f, sourceSize |-> ReadAttachmentSize,
     fail |-> o.fail, pauseOK |-> o.pauseOK, resumeOK |-> o.resumeOK]

\* Every outcome of the device, on a source inside and one outside the bounds.
BlitOutcomeInputs ==
    {BlitInput(s, Rect(0, 0, 2, 2), "GL_LINEAR", o) :
        s \in {Rect(0, 0, 2, 2), Rect(2, 0, 2, 2)}, o \in {x \in Outcomes : x.stepOK}}

BlitInputs ==
    {BlitInput(s, d, f, OK) : s \in BlitSourceAreas, d \in BlitDestAreas, f \in Filters}
      \cup BlitOutcomeInputs

ComponentPairs ==
    {p \in [source : ComponentTypes, dest : ComponentTypes] :
        ValidComponentTypes(p.source, p.dest)}

CopyBase ==
    [sourceLevel |-> 0, sourceComponentType |-> "GL_UNSIGNED_NORMALIZED",
     destComponentType |-> "GL_UNSIGNED_NORMALIZED",
     sourceSize |-> [width |-> 4, height |-> 2], sourceArea |-> Rect(1, 0, 2, 1),
     destOffset |-> [x |-> 1, y |-> 2, z |-> 0],
     needsLumaWorkaround |-> FALSE, lumaFormat |-> "GL_ALPHA",
     unpackFlipY |-> FALSE, unpackPremultiplyAlpha |-> FALSE, unpackUnmultiplyAlpha |-> FALSE,
     complete |-> TRUE, fail |-> "none", baseLevelOK |-> TRUE, pauseOK |-> TRUE,
     resumeOK |-> TRUE]

\* Every outcome of the device on a complete destination, and an incomplete
\* destination on a device whose compiler works or fails.
CopyOutcomeInputs ==
    {[CopyBase EXCEPT !.fail = o.fail, !.baseLevelOK = o.stepOK, !.pauseOK = o.pauseOK,
                      !.resumeOK = o.resumeOK] : o \in Outcomes}
      \cup {[CopyBase EXCEPT !.complete = FALSE, !.fail = f] : f \in {"none", "vs"}}

CopyTypeInputs(pairs) ==
    {[CopyBase EXCEPT !.sourceComponentType = p.source, !.destComponentType = p.dest,
                      !.complete = c] : p \in pairs, c \in BOOLEAN}

CopySubTextureInputs ==
    CopyOutcomeInputs
      \cup CopyTypeInputs(ComponentPairs)
      \cup {[CopyBase EXCEPT !.needsLumaWorkaround = TRUE, !.lumaFormat = f, !.sourceLevel = 1] :
                f \in LumaFormats}
      \cup {[CopyBase EXCEPT !.unpackFlipY = y, !.unpackPremultiplyAlpha = p,
                             !.unpackUnmultiplyAlpha = u] :
                y \in BOOLEAN, p \in BOOLEAN, u \in BOOLEAN}
      \cup {[CopyBase EXCEPT !.sourceArea = r, !.unpackFlipY = y] :
                r \in {Rect(2, 1, 2, 1), Rect(0, 0, 4, 2)}, y \in BOOLEAN}

ReadbackInputs ==
    {[sourceComponentType |-> t, sourceArea |-> Rect(1, 0, 2, 1),
      destOffset |-> [x |-> 1, y |-> 2, z |-> 0], unpackFlipY |-> y,
      unpackPremultiplyAlpha |-> FALSE, unpackUnmultiplyAlpha |-> y, allocOK |-> a] :
        t \in {"GL_UNSIGNED_NORMALIZED"}, y \in BOOLEAN, a \in BOOLEAN}

CopyTexSubImageInputs ==
    {[sourceArea |-> Rect(1, 0, 2, 1), destOffset |-> [x |-> 1, y |-> 2, z |-> 0],
      complete |-> c] : c \in BOOLEAN}

Layers == 0..(MaxLayers - 1)

NoLayer == [hasLayer |-> FALSE, layerIndex |-> 0, layerCount |-> 1]

\* An image index that names the layers layerIndex .. layerIndex+layerCount-1.
LayerIndexes ==
    {[hasLayer |-> TRUE, layerIndex |-> r[1], layerCount |-> r[2]] :
        r \in {x \in Layers \X (1..MaxLayers) : x[1] + x[2] <= MaxLayers}}

\* Whether the framebuffer is complete with each layer attached.
Completeness == [Layers -> BOOLEAN]

ClearInput(t, f, n, i, c) ==
    [type |-> t, sizedInternalFormat |-> f, numTextureLayers |-> n, imageIndex |-> i,
     complete |-> c]

ClearTextureInputs ==
    {ClearInput(t, f, 1, NoLayer, [l \in Layers |-> c]) :
        t \in {"_2D", "CubeMap"}, f \in SizedInternalFormats, c \in BOOLEAN}
      \cup {ClearInput("_3D", f, MaxLayers, NoLayer, c) :
                f \in SizedInternalFormats, c \in Completeness}
      \cup {ClearInput("_2DArray", "GL_RGBA8", MaxLayers, i, c) :
                i \in LayerIndexes, c \in Completeness}

ClearRenderbufferInputs ==
    {[sizedInternalFormat |-> f] : f \in SizedInternalFormats}

\* What a sampler gives for a channel: 0, 1/2, 1 of a sampler2D; 0, 1, 2 of a
\* usampler2D.
Channels(type) ==
    IF type = "UINT_TO_UINT" THEN {Frac(0, 1), Frac(1, 1), Frac(2, 1)}
    ELSE {Frac(0, 1), Frac(1, 2), Frac(1, 1)}

\* A program, a sampled colour (here of equal green and blue) and the two
\* alpha uniforms.
FragmentInputs ==
    UNION {{[type |-> t, color |-> c, u_multiply_alpha |-> mu, u_unmultiply_alpha |-> un] :
                c \in {k \in [{"x", "y", "z", "a"} -> Channels(t)] : k.y = k.z},
                mu \in BOOLEAN, un \in BOOLEAN} :
           t \in BlitProgramType}

\* A few inputs of each method, for behaviours that mix the methods.
FewLumaInputs == {LumaInput("_2D", "GL_LUMINANCE_ALPHA", o) : o \in Outcomes}

\* Every outcome of the device, and a blit to a reversed destination.
FewBlitInputs ==
    BlitOutcomeInputs \cup {BlitInput(Rect(0, 0, 2, 2), Rect(3, 3, -2, -2), "GL_NEAREST", OK)}

FewLumaImageInputs == {in \in LumaImageInputs : in.unpackBuffer = 0}

FewCopyInputs ==
    CopyOutcomeInputs
      \cup CopyTypeInputs({[source |-> "GL_UNSIGNED_INT", dest |-> "GL_UNSIGNED_INT"],
                           [source |-> "GL_FLOAT", dest |-> "GL_UNSIGNED_INT"]})
      \cup {[CopyBase EXCEPT !.unpackPremultiplyAlpha = p, !.unpackUnmultiplyAlpha = u] :
                p \in BOOLEAN, u \in BOOLEAN}

FewReadbackInputs == {in \in ReadbackInputs : ~in.unpackFlipY}

FewClearTextureInputs ==
    {in \in ClearTextureInputs :
        /\ in.sizedInternalFormat = "GL_RGBA8"
        /\ in.type \in {"_2D", "_3D"}
        /\ in.complete \in {[l \in Layers |-> TRUE], [l \in Layers |-> FALSE],
                            [l \in Layers |-> l # 1]}}

FewClearRenderbufferInputs == {[sizedInternalFormat |-> "GL_DEPTH24_STENCIL8"]}

(***************************************************************************)
(* The state machine.                                                      *)
(***************************************************************************)
Init ==
    /\ engine = BlitGL
    /\ alive = TRUE
    /\ \E caps \in Caps :
          /\ \E c \in CallerStates(caps) : rs = c.rs /\ bind = c.bind
          /\ objs = [names |-> [s \in {"texture", "framebuffer", "buffer", "vertexArray",
                                       "program"} |-> 0],
                     live |-> {}, linked |-> {},
                     storage |-> [n \in {} |-> 0], texParams |-> [n \in {} |-> 0],
                     attach |-> [n \in {} |-> 0], bufferFloats |-> [n \in {} |-> 0],
                     vaoAttribs |-> {}, caps |-> caps]
    /\ src = SourceDefault
    /\ cmds = <<>>
    /\ call = [name |-> "BlitGL", n |-> 0, in |-> <<>>, result |-> "NoError"]
    /\ stats = [gen |-> [s \in GenSlots |-> 0],
                compiled |-> [t \in BlitProgramType |-> 0],
                linked |-> [t \in BlitProgramType |-> 0],
                deleted |-> <<>>]

\* The state after a public call that ran as m.
Finish(name, in, m) ==
    /\ engine' = m.engine
    /\ rs' = m.rs
    /\ bind' = m.bind
    /\ objs' = m.objs
    /\ src' = m.src
    /\ stats' = m.stats
    /\ cmds' = m.log
    /\ call' = [name |-> name, n |-> call.n + 1, in |-> in, result |-> m.result]
    /\ UNCHANGED alive

CanCall == alive /\ call.n < MaxCalls

CopyImageToLUMAWorkaroundTexture(inputs) ==
    /\ CanCall
    /\ \E in \in inputs :
          Finish("copyImageToLUMAWorkaroundTexture", in,
                 copyImageToLUMAWorkaroundTexture(Machine, in))

CopySubImageToLUMAWorkaroundTexture(inputs) ==
    /\ CanCall
    /\ \E in \in inputs :
          Finish("copySubImageToLUMAWorkaroundTexture", in,
                 copySubImageToLUMAWorkaroundTexture(Machine, in))

BlitColorBufferWithShader(inputs) ==
    /\ CanCall
    /\ \E in \in inputs :
          Finish("blitColorBufferWithShader", in, blitColorBufferWithShader(Machine, in))

CopySubTexture(inputs) ==
    /\ CanCall
    /\ \E in \in inputs :
          Finish("copySubTexture", in, copySubTexture(Machine, in))

CopySubTextureCPUReadback(inputs) ==
    /\ CanCall
    /\ \E in \in inputs :
          Finish("copySubTextureCPUReadback", in, copySubTextureCPUReadback(Machine, in))

CopyTexSubImage(inputs) ==
    /\ CanCall
    /\ \E in \in inputs :
          Finish("copyTexSubImage", in, copyTexSubImage(Machine, in))

ClearRenderableTexture(inputs) ==
    /\ CanCall
    /\ \E in \in inputs :
          Finish("clearRenderableTexture", in, clearRenderableTexture(Machine, in))

ClearRenderbuffer(inputs) ==
    /\ CanCall
    /\ \E in \in inputs :
          Finish("clearRenderbuffer", in, clearRenderbuffer(Machine, in))

ClearFramebuffer ==
    /\ CanCall
    /\ Finish("clearFramebuffer", <<>>, clearFramebuffer(Machine))

Destroy ==
    /\ alive
    /\ LET m == Destructor(Machine)
       IN /\ engine' = m.engine
          /\ objs' = m.objs
          /\ stats' = m.stats
          /\ cmds' = m.log
          /\ call' = [name |-> "~BlitGL", n |-> call.n, in |-> <<>>, result |-> "NoError"]
    /\ alive' = FALSE
    /\ UNCHANGED <<rs, bind, src>>

\* Every method, each on a few inputs.
Next ==
    \/ CopyImageToLUMAWorkaroundTexture(FewLumaImageInputs)
    \/ CopySubImageToLUMAWorkaroundTexture(FewLumaInputs)
    \/ BlitColorBufferWithShader(FewBlitInputs)
    \/ CopySubTexture(FewCopyInputs)
    \/ CopySubTextureCPUReadback(FewReadbackInputs)
    \/ CopyTexSubImage(CopyTexSubImageInputs)
    \/ ClearRenderableTexture(FewClearTextureInputs)
    \/ ClearRenderbuffer(FewClearRenderbufferInputs)
    \/ ClearFramebuffer
    \/ Destroy

Spec == Init /\ [][Next]_vars

\* The framebuffer blit and the LUMA copies on all their inputs.
NextBlit ==
    \/ BlitColorBufferWithShader(BlitInputs)
    \/ CopySubImageToLUMAWorkaroundTexture(LumaInputs)
    \/ CopyImageToLUMAWorkaroundTexture(LumaImageInputs)
    \/ Destroy

SpecBlit == Init /\ [][NextBlit]_vars

\* The texture copies on all their inputs.
NextCopy ==
    \/ CopySubTexture(CopySubTextureInputs)
    \/ CopySubTextureCPUReadback(ReadbackInputs)
    \/ CopyTexSubImage(CopyTexSubImageInputs)
    \/ Destroy

SpecCopy == Init /\ [][NextCopy]_vars

\* The LUMA workaround: the two LUMA copies and the texture copy on all
\* their inputs.
NextLuma ==
    \/ CopySubImageToLUMAWorkaroundTexture(LumaInputs)
    \/ CopyImageToLUMAWorkaroundTexture(LumaImageInputs)
    \/ CopySubTexture(CopySubTextureInputs)
    \/ Destroy

SpecLuma == Init /\ [][NextLuma]_vars

\* The clears on all their inputs.
NextClear ==
    \/ ClearRenderableTexture(ClearTextureInputs)
    \/ ClearRenderbuffer(ClearRenderbufferInputs)
    \/ ClearFramebuffer
    \/ Destroy

SpecClear == Init /\ [][NextClear]_vars

\* The device runs the fragment shader of a blit program on one sample; the
\* result of the call is the colour it writes.
RunFragmentShader(inputs) ==
    /\ CanCall
    /\ \E in \in inputs :
          call' = [name |-> "main", n |-> call.n + 1, in |-> in,
                   result |-> FragmentMain(FragmentShaderSource(in.type, objs.caps.standard),
                                           in.color, in.u_multiply_alpha,
                                           in.u_unmultiply_alpha)]
    /\ cmds' = <<>>
    /\ UNCHANGED <<engine, alive, rs, bind, objs, src, stats>>

SpecShader == Init /\ [][RunFragmentShader(FragmentInputs)]_vars

(***************************************************************************)
(* Properties.  Each is about the state a public call leaves: call names   *)
(* the method, its inputs and its result, cmds is what it did.             *)
(***************************************************************************)
Requested(log, type) ==
    \E i \in 1..Len(log) : log[i].cmd = "getBlitProgram" /\ log[i].arg = type

Builds(log) ==
    \/ Has(log, "createProgram") \/ Has(log, "createShader")
    \/ Has(log, "compileShader") \/ Has(log, "linkProgram")

Cached(e, type) ==
    type \in DOMAIN e.mBlitPrograms /\ e.mBlitPrograms[type].program # 0

\* The guard was opened by the call: only its constructor sets the viewport.
GuardOpened(log) == Has(log, "setViewport")

GuardOps == {"copyImageToLUMAWorkaroundTexture", "copySubImageToLUMAWorkaroundTexture",
             "blitColorBufferWithShader", "copySubTexture"}

PublicCall == call'.n = call.n + 1

\* One step of C1: the build counters and what a request of a cached variant does.
C1_Step ==
    \A t \in BlitProgramType :
        /\ stats'.gen[t] <= 1 /\ stats'.compiled[t] <= 2 /\ stats'.linked[t] <= 1
        /\ (PublicCall /\ Cached(engine, t) /\ Requested(cmds', t)) =>
              /\ engine'.mBlitPrograms[t] = engine.mBlitPrograms[t]
              /\ ~Builds(cmds')
              /\ stats'.gen = stats.gen /\ stats'.compiled = stats.compiled
              /\ stats'.linked = stats.linked

\* C1: over any sequence of calls each blit variant is created, compiled (its
\* two shaders) and linked at most once, and a later request of a variant that
\* has a program gives the same handle and locations and creates, compiles and
\* links nothing.
C1_ProgramBuiltOnce == [][C1_Step]_vars

C1_Witness ==
    /\ call.n = 2
    /\ call.name = "copySubTexture" /\ call.result = "true"
    /\ Requested(cmds, "FLOAT_TO_UINT") /\ ~Builds(cmds)
    /\ stats.compiled["FLOAT_TO_UINT"] = 2 /\ stats.linked["FLOAT_TO_UINT"] = 1

ScratchSlots == {"texture1", "texture2", "framebuffer", "buffer", "vertexArray"}

Handle(e, slot) ==
    CASE slot = "texture1" -> e.mScratchTextures[1]
      [] slot = "texture2" -> e.mScratchTextures[2]
      [] slot = "framebuffer" -> e.mScratchFBO
      [] slot = "buffer" -> e.mVertexBuffer
      [] slot = "vertexArray" -> e.mVAO

Missing(e) == {s \in ScratchSlots : Handle(e, s) = 0}

C2_Fresh ==
    call.name = "BlitGL" => \A s \in ScratchSlots : Handle(engine, s) = 0 /\ stats.gen[s] = 0

C2_Step ==
    /\ \A s \in ScratchSlots : stats'.gen[s] <= 1
    /\ PublicCall =>
          IF Has(cmds', "initializeResources")
            THEN /\ \A s \in ScratchSlots :
                       /\ stats'.gen[s] = stats.gen[s] + (IF s \in Missing(engine) THEN 1 ELSE 0)
                       /\ Handle(engine', s) # 0
                       /\ s \notin Missing(engine) => Handle(engine', s) = Handle(engine, s)
                 /\ Count(cmds', "genTextures")
                       = Cardinality(Missing(engine) \cap {"texture1", "texture2"})
                 /\ Count(cmds', "genFramebuffers")
                       = Cardinality(Missing(engine) \cap {"framebuffer"})
                 /\ Count(cmds', "genBuffers") = Cardinality(Missing(engine) \cap {"buffer"})
                 /\ Count(cmds', "genVertexArrays")
                       = Cardinality(Missing(engine) \cap {"vertexArray"})
            ELSE \A s \in ScratchSlots :
                     stats'.gen[s] = stats.gen[s] /\ Handle(engine', s) = Handle(engine, s)

\* C2: a fresh engine has every scratch handle 0; initializeResources
\* generates exactly the scratch objects whose handle is 0, none when all
\* exist; so each scratch texture, the framebuffer, the vertex buffer and the
\* vertex array is generated at most once.
C2_ScratchResourcesLazy == [](C2_Fresh) /\ [][C2_Step]_vars

C2_Witness ==
    /\ call.n = 2
    /\ Has(cmds, "initializeResources")
    /\ ~Has(cmds, "genTextures") /\ ~Has(cmds, "genFramebuffers")
    /\ ~Has(cmds, "genBuffers") /\ ~Has(cmds, "genVertexArrays")
    /\ Missing(engine) = {}
    /\ \A s \in ScratchSlots : stats.gen[s] = 1

NoDuplicates(seq) == \A i, j \in 1..Len(seq) : seq[i] = seq[j] => i = j

\* C3: once the engine is destroyed every object it allocated has been
\* deleted exactly once, every handle is 0 and nothing it created is left.
C3_EverythingDeleted ==
    ~alive =>
        /\ objs.live = {}
        /\ Missing(engine) = ScratchSlots
        /\ DOMAIN engine.mBlitPrograms = {}
        /\ NoDuplicates(stats.deleted)

\* C4: a call that opens the guard pauses queries once and resumes them once,
\* after the pause and before it returns, whatever its exit; a call that does
\* not open the guard neither pauses nor resumes; only the guard-opening
\* methods open it.
C4_QueriesResumedOnce ==
    LET pauses == {i \in 1..Len(cmds) : cmds[i].cmd = "pauseAllQueries"}
        resumes == {i \in 1..Len(cmds) : cmds[i].cmd = "resumeAllQueries"}
    IN /\ GuardOpened(cmds) =>
              /\ call.name \in GuardOps
              /\ Cardinality(pauses) = 1 /\ Cardinality(resumes) = 1
              /\ \A i \in pauses, j \in resumes : i < j
       /\ ~GuardOpened(cmds) => pauses = {} /\ resumes = {}

C4_Witness ==
    /\ call.name = "copySubTexture" /\ call.result = "true"
    /\ GuardOpened(cmds)
    /\ Count(cmds, "pauseAllQueries") = 1
    /\ cmds[Len(cmds)].cmd = "resumeAllQueries"

\* The viewport each guard-opening method gives the guard.
GuardViewport(name, in) ==
    CASE name = "blitColorBufferWithShader" -> removeReversal(in.destAreaIn)
      [] name = "copySubTexture" ->
             Rect(in.destOffset.x, in.destOffset.y, in.sourceArea.width, in.sourceArea.height)
      [] OTHER -> Rect(0, 0, in.sourceArea.width, in.sourceArea.height)

\* The render state the guard's constructor sets.
GuardForced == {"scissorTest", "viewport", "depthRange", "blend", "colorMask",
                "sampleAlphaToCoverage", "sampleCoverage", "depthTest", "stencilTest",
                "cullFace", "polygonOffsetFill", "rasterizerDiscard",
                "transformFeedbackPaused", "queriesPaused"}

GuardDisabled == {"blend", "sampleAlphaToCoverage", "sampleCoverage", "depthTest",
                  "stencilTest", "cullFace", "polygonOffsetFill", "rasterizerDiscard"}

\* C5 as stated: when a public call that opened the guard returns, every state
\* the guard forced has the value it had when the call started.
C5_Original ==
    [][(PublicCall /\ GuardOpened(cmds')) => \A f \in GuardForced : rs'[f] = rs[f]]_vars

C5_Step ==
    (PublicCall /\ call'.name \in GuardOps) =>
        IF GuardOpened(cmds')
          THEN /\ rs'.scissorTest = IF call'.name = "blitColorBufferWithShader"
                                      THEN rs.scissorTest ELSE FALSE
               /\ rs'.viewport = GuardViewport(call'.name, call'.in)
               /\ rs'.depthRange = <<0, 1>>
               /\ rs'.colorMask = <<TRUE, TRUE, TRUE, TRUE>>
               /\ \A f \in GuardDisabled : rs'[f] = FALSE
               /\ rs'.transformFeedbackPaused
               /\ call'.in.resumeOK => ~rs'.queriesPaused
               /\ \A f \in (DOMAIN rs) \ GuardForced : rs'[f] = rs[f]
          ELSE rs' = rs

\* C5, amended: when a call that opened the guard returns, the state the guard
\* forced is left forced (scissor test off, or as it was for the blit, which
\* keeps the scissor; the call's viewport; depth range 0..1; colour mask all
\* true; blend, sample coverage, alpha to coverage, depth test, stencil test,
\* cull face, polygon offset fill and rasterizer discard off; transform
\* feedback paused); only the queries are resumed, when the resume succeeds.
\* A guard-opening method that returns before it opens the guard changes none
\* of the render state.
C5_GuardLeavesStateForced == [][C5_Step]_vars

C5_Witness ==
    /\ call.n = 1 /\ call.name = "blitColorBufferWithShader" /\ GuardOpened(cmds)
    /\ rs.clearColor = RenderBusy.clearColor
    /\ rs.scissorTest /\ ~rs.blend /\ ~rs.cullFace /\ rs.transformFeedbackPaused
    /\ rs.viewport # RenderBusy.viewport
    /\ ~rs.queriesPaused

EmptyBlit ==
    /\ call.name = "blitColorBufferWithShader"
    /\ ~ClipRectangle(removeReversal(call.in.sourceAreaIn),
                      Rect(0, 0, call.in.sourceSize.width, call.in.sourceSize.height)).ok

NoBlitWork ==
    /\ ~Has(cmds, "copyTexImage2D") /\ ~Has(cmds, "texParameter")
    /\ ~GuardOpened(cmds) /\ ~Has(cmds, "uniform") /\ ~Has(cmds, "drawArrays")

\* C6 as stated: a blit whose source rectangle does not meet the bounds of the
\* source attachment returns success, never an error, and copies nothing,
\* sets no scratch texture parameter, opens no guard, sets no uniform, draws
\* nothing.
C6_Original == EmptyBlit => call.result = "NoError" /\ NoBlitWork

\* C6, amended: such a blit copies nothing, sets no scratch texture parameter,
\* opens no guard, sets no uniform and draws nothing; it returns success,
\* unless the FLOAT_TO_FLOAT program is built in this call and a shader fails
\* to compile or the program to link, and then it returns that error.
C6_EmptyBlitDoesNothing ==
    EmptyBlit =>
        /\ NoBlitWork
        /\ call.result = IF Has(cmds, "createProgram") /\ call.in.fail # "none"
                           THEN "Error" ELSE "NoError"

C6_Witness ==
    /\ EmptyBlit /\ call.result = "NoError"
    /\ Requested(cmds, "FLOAT_TO_FLOAT") /\ NoBlitWork

SourceTextureCommands == {"setSwizzle", "setMinFilter", "setMagFilter", "setBaseLevel"}

\* C7: copySubTexture returns false exactly when the framebuffer with the
\* destination attached is incomplete, and then it has requested and built no
\* program, set no state of the source texture, opened no guard and drawn
\* nothing; it returns true only after exactly one draw of 3 vertices.
C7_CopySubTextureResult ==
    call.name = "copySubTexture" =>
        /\ call.result = "false" <=> ~call.in.complete
        /\ call.result = "false" =>
              /\ ~Has(cmds, "getBlitProgram") /\ ~Builds(cmds)
              /\ \A c \in SourceTextureCommands : ~Has(cmds, c)
              /\ ~GuardOpened(cmds) /\ ~Has(cmds, "drawArrays")
        /\ call.result = "true" =>
              /\ Count(cmds, "drawArrays") = 1
              /\ \A i \in 1..Len(cmds) : cmds[i].cmd = "drawArrays" => cmds[i].arg.count = 3

C7_Witness ==
    /\ call.name = "copySubTexture" /\ call.result = "false"
    /\ call.in.fail = "vs" /\ ~Cached(engine, "FLOAT_TO_FLOAT")
    /\ Has(cmds, "checkFramebufferStatus")

\* C8: copyTexSubImage returns false and copies nothing when the framebuffer
\* with the source attached is incomplete, and else copies once with
\* copyTexSubImage2D and returns true; it never requests or builds a program,
\* opens the guard, sets a uniform or draws.
C8_CopyTexSubImage ==
    call.name = "copyTexSubImage" =>
        /\ call.result = IF call.in.complete THEN "true" ELSE "false"
        /\ Count(cmds, "copyTexSubImage2D") = IF call.in.complete THEN 1 ELSE 0
        /\ ~Has(cmds, "getBlitProgram") /\ ~Builds(cmds) /\ ~Has(cmds, "useProgram")
        /\ ~GuardOpened(cmds) /\ ~Has(cmds, "pauseAllQueries")
        /\ ~Has(cmds, "uniform") /\ ~Has(cmds, "drawArrays")

C8_Witness ==
    /\ call.name = "copyTexSubImage" /\ call.result = "true"
    /\ Count(cmds, "copyTexSubImage2D") = 1
    /\ Cached(engine, "FLOAT_TO_FLOAT")

\* C9: copySubTexture requests UINT_TO_UINT when the source is unsigned
\* integer (and then the destination is too), FLOAT_TO_UINT exactly when the
\* source is not and the destination is unsigned integer, FLOAT_TO_FLOAT in
\* every other case.
C9_VariantSelection ==
    (call.name = "copySubTexture" /\ Has(cmds, "getBlitProgram")) =>
        LET source == call.in.sourceComponentType
            dest == call.in.destComponentType
        IN /\ Count(cmds, "getBlitProgram") = 1
           /\ source = "GL_UNSIGNED_INT" => dest = "GL_UNSIGNED_INT"
           /\ Requested(cmds, "UINT_TO_UINT") <=> source = "GL_UNSIGNED_INT"
           /\ Requested(cmds, "FLOAT_TO_UINT")
                 <=> (source # "GL_UNSIGNED_INT" /\ dest = "GL_UNSIGNED_INT")
           /\ Requested(cmds, "FLOAT_TO_FLOAT")
                 <=> (source # "GL_UNSIGNED_INT" /\ dest # "GL_UNSIGNED_INT")

C9_Witness ==
    /\ call.name = "copySubTexture" /\ call.result = "true"
    /\ call.in.sourceComponentType = "GL_FLOAT"
    /\ call.in.destComponentType = "GL_UNSIGNED_INT"
    /\ Requested(cmds, "FLOAT_TO_UINT")

AttachCommands == {"framebufferTexture2D", "framebufferTexture", "framebufferTextureLayer",
                   "framebufferRenderbuffer"}

\* The attachment points the call attached an image to.
BoundPoints(log) ==
    {log[i].arg.point :
        i \in {j \in 1..Len(log) : log[j].cmd \in AttachCommands
                                      /\ log[j].arg.att.kind # "none"}}

\* C10: when clearRenderableTexture or clearRenderbuffer returns, with either
\* result and on every path, every attachment point of the scratch
\* framebuffer it attached an image to is detached.
C10_ClearDetaches ==
    call.name \in {"clearRenderableTexture", "clearRenderbuffer"} =>
        /\ BoundPoints(cmds) # {}
        /\ \A i \in 1..Len(cmds) :
               cmds[i].cmd \in AttachCommands => cmds[i].arg.fbo = engine.mScratchFBO
        /\ \A p \in BoundPoints(cmds) : objs.attach[engine.mScratchFBO][p] = NoAttachment

C10_Witness ==
    /\ call.name = "clearRenderableTexture" /\ call.result = "false"
    /\ call.in.type = "_3D"
    /\ BoundPoints(cmds) = {"GL_DEPTH_ATTACHMENT", "GL_STENCIL_ATTACHMENT"}
    /\ Count(cmds, "clear") = 1
    /\ Count(cmds, "framebufferTextureLayer") = 4

ScratchAttachOps == {"copySubImageToLUMAWorkaroundTexture", "copySubTexture",
                     "copySubTextureCPUReadback", "copyTexSubImage",
                     "clearRenderableTexture", "clearRenderbuffer"}

\* The call attached an image to a point of the scratch framebuffer.
AttachedToScratch ==
    \E i \in 1..Len(cmds) :
        /\ cmds[i].cmd \in AttachCommands
        /\ cmds[i].arg.fbo = engine.mScratchFBO /\ cmds[i].arg.att.kind # "none"

\* C11: after a public operation that attached something to the scratch
\* framebuffer returns, every attachment point of the scratch framebuffer is
\* empty.
C11_ScratchFramebufferEmpty ==
    (call.name \in ScratchAttachOps /\ AttachedToScratch) =>
        \A p \in AttachmentPoints : objs.attach[engine.mScratchFBO][p] = NoAttachment

ScratchStorage(i) ==
    IF engine.mScratchTextures[i] \in DOMAIN objs.storage
      THEN objs.storage[engine.mScratchTextures[i]] ELSE <<0, 0>>

\* The call gave a scratch texture an image of non-zero size.
FilledScratch ==
    \E i \in 1..Len(cmds) :
        /\ cmds[i].cmd \in {"copyTexImage2D", "texImage2D"}
        /\ cmds[i].arg.name \in {engine.mScratchTextures[1], engine.mScratchTextures[2]}
        /\ cmds[i].arg.width > 0 /\ cmds[i].arg.height > 0

ScratchFillOps == {"copyImageToLUMAWorkaroundTexture", "copySubImageToLUMAWorkaroundTexture",
                   "blitColorBufferWithShader"}

\* C12: after a public operation that gave a scratch texture non-zero storage
\* returns successfully, both scratch textures have 0x0 storage.
C12_ScratchTexturesOrphaned ==
    (call.name \in ScratchFillOps /\ call.result = "NoError" /\ FilledScratch) =>
        ScratchStorage(1) = <<0, 0>> /\ ScratchStorage(2) = <<0, 0>>

\* clearRenderableTexture took the per-layer path (the loop of
\* framebufferTextureLayer): a 3D / array texture, and a layer range was given
\* or the device cannot attach a whole level.
PerLayerClear ==
    /\ call.name = "clearRenderableTexture" /\ ~UseTexImage2D(call.in.type)
    /\ call.in.imageIndex.hasLayer \/ ~objs.caps.framebufferTexture

FirstLayer == IF call.in.imageIndex.hasLayer THEN call.in.imageIndex.layerIndex ELSE 0

LayerCount ==
    IF call.in.imageIndex.hasLayer THEN call.in.imageIndex.layerCount
    ELSE call.in.numTextureLayers

\* The first n layers of the range, in ascending order.
LayerRange(n) == [i \in 1..n |-> FirstLayer + i - 1]

\* The layers the call attached to the point, in the order of the attachments.
AttachedLayers(point) ==
    LET attached == SelectSeq(cmds, LAMBDA e : e.cmd = "framebufferTextureLayer"
                                                  /\ e.arg.point = point)
    IN [i \in 1..Len(attached) |-> attached[i].arg.att.layer]

\* The layer each clear of the call cleared at the point, in the order of the clears.
ClearedLayers(point) ==
    LET clears == SelectSeq(cmds, LAMBDA e : e.cmd = "clear")
    IN [i \in 1..Len(clears) |-> clears[i].arg.att[point].layer]

ClearPoints == {BindTargets(call.in.sizedInternalFormat)[i] :
                    i \in 1..Len(BindTargets(call.in.sizedInternalFormat))}

IncompleteLayers == {l \in FirstLayer..(FirstLayer + LayerCount - 1) : ~call.in.complete[l]}

\* C13: in the per-layer path with a caller-specified range {first, count},
\* when every layer of the range is complete exactly the layers
\* first .. first+count-1 are attached and cleared, each once and in ascending
\* order, no other layer is cleared and the result is true; the result is true
\* only if every layer of the range is complete.
C13_LayerRangeCleared ==
    (PerLayerClear /\ call.in.imageIndex.hasLayer) =>
        /\ IncompleteLayers = {} =>
              /\ call.result = "true"
              /\ \A p \in ClearPoints :
                     /\ AttachedLayers(p) = LayerRange(LayerCount)
                     /\ ClearedLayers(p) = LayerRange(LayerCount)
              /\ \A i \in 1..Len(cmds) :
                     cmds[i].cmd = "clear" => cmds[i].arg.fbo = engine.mScratchFBO
        /\ call.result = "true" => IncompleteLayers = {}

C13_Witness ==
    /\ PerLayerClear /\ call.result = "true"
    /\ call.in.imageIndex = [hasLayer |-> TRUE, layerIndex |-> 1, layerCount |-> 2]
    /\ ~call.in.complete[0]
    /\ ClearedLayers("GL_COLOR_ATTACHMENT0") = <<1, 2>>

\* C14: in the per-layer path, if layer k is the first layer of the range
\* found incomplete, the call returns false, every layer of the range before k
\* has been cleared exactly once, in order, and no layer at or after k is
\* cleared.
C14_StopsAtFirstIncompleteLayer ==
    (PerLayerClear /\ IncompleteLayers # {}) =>
        LET k == CHOOSE l \in IncompleteLayers : \A o \in IncompleteLayers : l <= o
        IN /\ call.result = "false"
           /\ \A p \in ClearPoints :
                  /\ ClearedLayers(p) = LayerRange(k - FirstLayer)
                  /\ AttachedLayers(p) = LayerRange(k - FirstLayer + 1)

C14_Witness ==
    /\ PerLayerClear /\ call.result = "false"
    /\ ~call.in.imageIndex.hasLayer /\ call.in.sizedInternalFormat = "GL_DEPTH24_STENCIL8"
    /\ call.in.complete = [l \in Layers |-> l # 1]
    /\ ClearedLayers("GL_DEPTH_ATTACHMENT") = <<0>>
    /\ ClearedLayers("GL_STENCIL_ATTACHMENT") = <<0>>

\* A shader failed to compile or the program to link in this call: the call
\* built a program on a device whose compiler or linker fails.
BuildFailed ==
    call.name \in GuardOps /\ Has(cmds, "createProgram") /\ call.in.fail # "none"

\* context->getScratchBuffer failed in this call.
AllocationFailed == call.name = "copySubTextureCPUReadback" /\ ~call.in.allocOK

\* The last command the call issued before the failure was seen.
FailedAt ==
    IF AllocationFailed
      THEN CHOOSE i \in 1..Len(cmds) : cmds[i].cmd = "checkFramebufferStatus"
      ELSE CHOOSE i \in 1..Len(cmds) :
               /\ cmds[i].cmd \in {"compileShader", "linkProgram"}
               /\ \A j \in (i + 1)..Len(cmds) : cmds[j].cmd \notin {"compileShader", "linkProgram"}

TransferCommands == {"drawArrays", "readPixels", "texSubImage2D", "texImage2D",
                     "copyTexImage2D", "copyTexSubImage2D", "copyTexSubImage3D"}

\* C15: when a shader fails to compile or a program to link inside a call, or
\* the scratch buffer of copySubTextureCPUReadback cannot be allocated, the
\* call returns the error, opens no guard, and after the failure it draws
\* nothing, reads no pixels back and uploads nothing (it issues no command at
\* all).
C15_FatalErrorAborts ==
    (BuildFailed \/ AllocationFailed) =>
        /\ call.result = "Error"
        /\ ~GuardOpened(cmds) /\ ~Has(cmds, "pauseAllQueries")
        /\ ~Has(cmds, "drawArrays") /\ ~Has(cmds, "readPixels") /\ ~Has(cmds, "texSubImage2D")
        /\ \A i \in (FailedAt + 1)..Len(cmds) : cmds[i].cmd \notin TransferCommands
        /\ Len(cmds) = FailedAt

C15_Witness ==
    /\ BuildFailed /\ call.name = "copySubTexture" /\ call.in.fail = "fs"
    /\ call.result = "Error"
    /\ Count(cmds, "compileShader") = 2 /\ ~Has(cmds, "linkProgram")
    /\ Has(cmds, "framebufferTexture2D")

\* The guard-opening method of the given name, run from the current state.
GuardOp(name, in) ==
    CASE name = "copyImageToLUMAWorkaroundTexture" -> copyImageToLUMAWorkaroundTexture(Machine, in)
      [] name = "copySubImageToLUMAWorkaroundTexture" ->
             copySubImageToLUMAWorkaroundTexture(Machine, in)
      [] name = "blitColorBufferWithShader" -> blitColorBufferWithShader(Machine, in)
      [] name = "copySubTexture" -> copySubTexture(Machine, in)

\* A command as the call issued it: without the outcome of a pause or resume
\* and without the queries' state that the log keeps with a draw.
Issued(log) ==
    [i \in 1..Len(log) |->
        IF log[i].cmd \in {"pauseAllQueries", "resumeAllQueries"}
          THEN [cmd |-> log[i].cmd, arg |-> 0]
        ELSE IF log[i].cmd = "drawArrays"
          THEN [cmd |-> "drawArrays", arg |-> [log[i].arg EXCEPT !.rs.queriesPaused = FALSE]]
        ELSE log[i]]

C16_Step ==
    (PublicCall /\ call'.name \in GuardOps) =>
        \A p \in BOOLEAN, r \in BOOLEAN :
            \A other \in {GuardOp(call'.name, [call'.in EXCEPT !.pauseOK = p, !.resumeOK = r])} :
                /\ other.result = call'.result
                /\ Issued(other.log) = Issued(cmds')
                /\ other.bind = bind' /\ other.engine = engine' /\ other.objs = objs'

\* C16: for every method that opens the guard, the result of a call and the
\* sequence of device commands it issues (and the bindings and objects it
\* leaves) are the same whether pauseAllQueries and resumeAllQueries succeed
\* or fail.
C16_QueryFailureSwallowed == [][C16_Step]_vars

C16_Witness ==
    /\ call.name = "blitColorBufferWithShader" /\ call.result = "NoError"
    /\ ~call.in.pauseOK /\ ~call.in.resumeOK
    /\ Count(cmds, "pauseAllQueries") = 1 /\ Count(cmds, "resumeAllQueries") = 1
    /\ Count(cmds, "drawArrays") = 1

\* The values the call gave its uniforms, in the order it set them: the
\* source texture, the scale, the offset, the two alpha flags.
UniformValues ==
    LET set == SelectSeq(cmds, LAMBDA e : e.cmd = "uniform")
    IN [i \in 1..Len(set) |-> set[i].arg.value]

\* The viewport the call set.
ViewportSet == CHOOSE i \in 1..Len(cmds) : cmds[i].cmd = "setViewport"

BlitDrew == call.name = "blitColorBufferWithShader" /\ Has(cmds, "drawArrays")

\* The rectangle with the reversal removed on the chosen axes.
Unreverse(r, x, y) ==
    LET a == IF x /\ r.width < 0 THEN [r EXCEPT !.x = r.x + r.width, !.width = -r.width] ELSE r
    IN IF y /\ a.height < 0 THEN [a EXCEPT !.y = a.y + a.height, !.height = -a.height] ELSE a

\* What a blit that drew gave the device, by the reversal senses of its two
\* rectangles.
C17_Applied ==
    BlitDrew =>
        LET source == call.in.sourceAreaIn
            dest == call.in.destAreaIn
            x == (source.width < 0) # (dest.width < 0)
            y == (source.height < 0) # (dest.height < 0)
            normal == Unreverse(source, TRUE, TRUE)
            sampled == ClipRectangle(normal, Rect(0, 0, call.in.sourceSize.width,
                                                  call.in.sourceSize.height)).intersection
            scale == UniformValues[2]
            offset == UniformValues[3]
        IN /\ cmds[ViewportSet].arg = Unreverse(dest, TRUE, TRUE)
           /\ scale.x = Quot(IF x THEN -normal.width ELSE normal.width, sampled.width)
           /\ scale.y = Quot(IF y THEN -normal.height ELSE normal.height, sampled.height)
           /\ offset.x = Quot(normal.x - sampled.x + (IF x THEN normal.width ELSE 0),
                              sampled.width)
           /\ offset.y = Quot(normal.y - sampled.y + (IF y THEN normal.height ELSE 0),
                              sampled.height)

\* A blit with the reversal removed from both rectangles on every axis on
\* which both are reversed gives the device the same commands.
C17_Step ==
    (PublicCall /\ call'.name = "blitColorBufferWithShader") =>
        LET source == call'.in.sourceAreaIn
            dest == call'.in.destAreaIn
            x == source.width < 0 /\ dest.width < 0
            y == source.height < 0 /\ dest.height < 0
        IN \A other \in {blitColorBufferWithShader(
                             Machine, [call'.in EXCEPT !.sourceAreaIn = Unreverse(source, x, y),
                                                       !.destAreaIn = Unreverse(dest, x, y)])} :
               other.result = call'.result /\ other.log = cmds'

\* C17: a blit applies the X reversal to the sampling exactly when its source
\* and destination rectangles differ in X reversal sense and the Y reversal
\* exactly when they differ in Y sense, each independently of the other; so a
\* blit whose rectangles are both reversed on an axis sets the same viewport,
\* texture-coordinate scale and offset as the blit of the rectangles with
\* that reversal removed.
C17_ReversalComposition == [](C17_Applied) /\ [][C17_Step]_vars

C17_Witness ==
    /\ BlitDrew
    /\ call.in.sourceAreaIn = Rect(2, 2, -2, -2) /\ call.in.destAreaIn = Rect(3, 1, -2, 2)
    /\ UniformValues[2] = Vector2(Quot(2, 2), Quot(-2, 2))
    /\ UniformValues[3] = Vector2(Quot(0, 2), Quot(2, 2))
    /\ rs.viewport = Rect(1, 1, 2, 2)

Opaque(color) == color.a = Frac(1, 1)

Transparent(color) == color.a = Frac(0, 1)

\* C18: the fragment shader skips the division when unmultiply is set and the
\* sampled alpha is 0 and leaves RGB as it is; on a sample of alpha 1 the
\* multiply step and the unmultiply step each leave the colour as it is, so
\* unmultiply then premultiply, and premultiply then unmultiply, change
\* nothing, and the shader writes the sampled colour times the output
\* multiplier whatever the two uniforms are.
C18_AlphaHandling ==
    call.name = "main" =>
        LET source == FragmentShaderSource(call.in.type, objs.caps.standard)
            color == call.in.color
        IN /\ Transparent(color) =>
                  /\ UnmultiplyAlpha(source, color, TRUE) = color
                  /\ ~call.in.u_multiply_alpha => call.result = OutputColor(source, color)
           /\ Opaque(color) =>
                  /\ MultiplyAlpha(color, TRUE) = color
                  /\ UnmultiplyAlpha(source, color, TRUE) = color
                  /\ MultiplyAlpha(UnmultiplyAlpha(source, color, TRUE), TRUE) = color
                  /\ UnmultiplyAlpha(source, MultiplyAlpha(color, TRUE), TRUE) = color
                  /\ call.result = OutputColor(source, color)

C18_Witness ==
    /\ call.name = "main" /\ call.in.type = "FLOAT_TO_UINT"
    /\ call.in.u_unmultiply_alpha /\ ~call.in.u_multiply_alpha
    /\ Transparent(call.in.color) /\ call.in.color.x = Frac(1, 2)
    /\ call.result.x = Frac(127, 1) /\ call.result.a = Frac(0, 1)

C19_Step ==
    (PublicCall /\ call'.name = "clearFramebuffer") =>
        /\ engine' = engine
        /\ stats' = stats
        /\ objs' = objs
        /\ ~Has(cmds', "initializeResources")
        /\ \A c \in {"genTextures", "genFramebuffers", "genBuffers", "genVertexArrays"} :
               ~Has(cmds', c)
        /\ ~Has(cmds', "getBlitProgram") /\ ~Builds(cmds')
        /\ Count(cmds', "clear") = 1
        /\ \A i \in 1..Len(cmds') :
               cmds'[i].cmd = "clear" =>
                   /\ cmds'[i].arg.mask = {"GL_COLOR_BUFFER_BIT", "GL_DEPTH_BUFFER_BIT",
                                           "GL_STENCIL_BUFFER_BIT"}
                   /\ cmds'[i].arg.fbo = ClearFramebufferID
        /\ call'.result = "NoError"

\* C19: clearFramebuffer, called on an engine in any state (a fresh one
\* included), generates no scratch texture, framebuffer, vertex buffer or
\* vertex array, leaves every scratch handle and the program cache as they
\* are, and issues exactly one clear, with the colour, depth and stencil bits
\* all set, on the framebuffer it is given.
C19_ClearFramebufferNoScratch == [][C19_Step]_vars

C19_Witness ==
    /\ call.name = "clearFramebuffer" /\ call.n = 1
    /\ engine = BlitGL /\ objs.live = {}
    /\ Count(cmds, "clear") = 1
    /\ bind.drawFBO = ClearFramebufferID

ClearOps == {"clearRenderableTexture", "clearRenderbuffer"}

\* C20 as stated: for every sized internal format, clearRenderableTexture and
\* clearRenderbuffer bind exactly one of the colour, depth and stencil
\* attachment points.
C20_Original == call.name \in ClearOps => Cardinality(BoundPoints(cmds)) = 1

\* C20, amended: the colour point is exclusive of the depth and stencil
\* points: a clear binds the colour point alone when the format has neither
\* depth nor stencil bits, and else the depth point when it has depth bits and
\* the stencil point when it has stencil bits, both for a depth-stencil
\* format; the clear mask has the bits of the points bound.
C20_ColourExclusive ==
    call.name \in ClearOps =>
        LET info == GetSizedInternalFormatInfo(call.in.sizedInternalFormat)
            points == BoundPoints(cmds)
        IN /\ points # {}
           /\ "GL_COLOR_ATTACHMENT0" \in points <=> points = {"GL_COLOR_ATTACHMENT0"}
           /\ "GL_COLOR_ATTACHMENT0" \in points <=> (info.depthBits = 0 /\ info.stencilBits = 0)
           /\ "GL_DEPTH_ATTACHMENT" \in points <=> info.depthBits > 0
           /\ "GL_STENCIL_ATTACHMENT" \in points <=> info.stencilBits > 0
           /\ \A i \in 1..Len(cmds) :
                  cmds[i].cmd = "clear" =>
                      cmds[i].arg.mask =
                          ClearMask("GL_COLOR_ATTACHMENT0" \in points,
                                    "GL_DEPTH_ATTACHMENT" \in points,
                                    "GL_STENCIL_ATTACHMENT" \in points)

C20_Witness ==
    /\ call.name = "clearRenderbuffer"
    /\ call.in.sizedInternalFormat = "GL_DEPTH24_STENCIL8"
    /\ BoundPoints(cmds) = {"GL_DEPTH_ATTACHMENT", "GL_STENCIL_ATTACHMENT"}
    /\ Count(cmds, "clear") = 1

\* The bits of a clear mask, by the attachment point each one clears.
MaskBit == [GL_COLOR_ATTACHMENT0 |-> "GL_COLOR_BUFFER_BIT",
            GL_DEPTH_ATTACHMENT |-> "GL_DEPTH_BUFFER_BIT",
            GL_STENCIL_ATTACHMENT |-> "GL_STENCIL_BUFFER_BIT"]

\* The clear masks the call cleared with.
ClearMasks == {cmds[i].arg.mask : i \in {j \in 1..Len(cmds) : cmds[j].cmd = "clear"}}

\* C21: for every sized internal format the clear mask of PrepareForClear is
\* not empty and has one bit for each attachment point bound and no other: the
\* colour bit iff the colour point is bound (the format has neither depth nor
\* stencil bits), the depth bit iff the depth point is bound (depth bits > 0),
\* the stencil bit iff the stencil point is bound (stencil bits > 0).
C21_ClearMaskMatchesBindTargets ==
    call.name \in ClearOps =>
        LET format == call.in.sizedInternalFormat
            info == GetSizedInternalFormatInfo(format)
            mask == PrepareClearMask(format)
            targets == {BindTargets(format)[i] : i \in 1..Len(BindTargets(format))}
        IN /\ mask # {}
           /\ \A p \in AttachmentPoints : MaskBit[p] \in mask <=> p \in targets
           /\ mask \subseteq {MaskBit[p] : p \in AttachmentPoints}
           /\ "GL_COLOR_BUFFER_BIT" \in mask <=> (info.depthBits = 0 /\ info.stencilBits = 0)
           /\ "GL_DEPTH_BUFFER_BIT" \in mask <=> info.depthBits > 0
           /\ "GL_STENCIL_BUFFER_BIT" \in mask <=> info.stencilBits > 0
           /\ ClearMasks \subseteq {mask}
           /\ BoundPoints(cmds) = targets

C21_Witness ==
    /\ call.name = "clearRenderableTexture" /\ call.result = "true"
    /\ call.in.sizedInternalFormat = "GL_STENCIL_INDEX8"
    /\ ClearMasks = {{"GL_STENCIL_BUFFER_BIT"}}
    /\ BoundPoints(cmds) = {"GL_STENCIL_ATTACHMENT"}

\* The blit went past the clip of its source rectangle: it copied the clipped
\* source into the scratch texture.
BlitPastClip == call.name = "blitColorBufferWithShader" /\ Has(cmds, "copyTexImage2D")

\* The size of the image the call copied into the scratch texture: the size of
\* inBoundsSource.
CopiedImage == cmds[CHOOSE i \in 1..Len(cmds) : cmds[i].cmd = "copyTexImage2D"].arg

NonEmptyRectangle(r) == r.width # 0 /\ r.height # 0

\* C22: when blitColorBufferWithShader goes past the clip of a non-empty
\* source rectangle (against a read attachment of non-zero size), the clipped
\* rectangle has width > 0 and height > 0, and these two are the divisors of
\* the texture-coordinate offset and scale, so no divisor is 0.
C22_NoDivisionByZero ==
    (/\ BlitPastClip
     /\ NonEmptyRectangle(call.in.sourceAreaIn)
     /\ call.in.sourceSize.width > 0 /\ call.in.sourceSize.height > 0) =>
        /\ CopiedImage.width > 0 /\ CopiedImage.height > 0
        /\ CopiedImage.width <= call.in.sourceSize.width
        /\ CopiedImage.height <= call.in.sourceSize.height
        /\ Count(cmds, "drawArrays") = 1
        /\ \A i \in {2, 3} :
               /\ UniformValues[i].x.den = CopiedImage.width
               /\ UniformValues[i].y.den = CopiedImage.height

C22_Witness ==
    /\ BlitPastClip
    /\ call.in.sourceAreaIn = Rect(-1, 1, 2, 1)
    /\ CopiedImage.width = 1 /\ CopiedImage.height = 1
    /\ UniformValues[2] = Vector2(Quot(2, 1), Quot(1, 1))
    /\ UniformValues[3] = Vector2(Quot(-1, 1), Quot(0, 1))

\* The draws of the call, as the log keeps them.
Draws == {i \in 1..Len(cmds) : cmds[i].cmd = "drawArrays"}

\* C23: at every draw the multiply-alpha and unmultiply-alpha uniforms are not
\* both set.  copySubTexture passes multiply = premultiply and not unmultiply,
\* unmultiply = unmultiply and not premultiply (0 and 0 when the two flags are
\* equal); blitColorBufferWithShader and the LUMA copy pass 0 and 0.
C23_AlphaUniformsExclusive ==
    (call.name \in GuardOps /\ Draws # {}) =>
        LET multiply == UniformValues[4]
            unmultiply == UniformValues[5]
            premultiplyAlpha == call.in.unpackPremultiplyAlpha
            unmultiplyAlpha == call.in.unpackUnmultiplyAlpha
        IN /\ Len(UniformValues) = 5
           /\ ~(multiply = 1 /\ unmultiply = 1)
           /\ IF call.name = "copySubTexture"
                THEN /\ multiply = 1 <=> (premultiplyAlpha /\ ~unmultiplyAlpha)
                     /\ unmultiply = 1 <=> (unmultiplyAlpha /\ ~premultiplyAlpha)
                     /\ multiply \in {0, 1} /\ unmultiply \in {0, 1}
                ELSE multiply = 0 /\ unmultiply = 0
           /\ \A i \in Draws :
                  /\ IF cmds[i].arg.linked
                       THEN /\ cmds[i].arg.uniforms.u_multiply_alpha = multiply
                            /\ cmds[i].arg.uniforms.u_unmultiply_alpha = unmultiply
                       ELSE cmds[i].arg.uniforms = NoUniforms
                  /\ \A j \in 1..Len(cmds) : cmds[j].cmd = "uniform" => j < i

C23_Witness ==
    /\ call.name = "copySubTexture" /\ call.result = "true"
    /\ call.in.unpackPremultiplyAlpha /\ call.in.unpackUnmultiplyAlpha
    /\ UniformValues[4] = 0 /\ UniformValues[5] = 0
    /\ \A i \in Draws : cmds[i].arg.linked /\ cmds[i].arg.uniforms.u_unmultiply_alpha = 0
    /\ Draws # {}

\* Where in the call's commands a command of the given name is.
Positions(c) == {i \in 1..Len(cmds) : cmds[i].cmd = c}

\* The texImage2D calls of orphanScratchTextures: a scratch texture is given
\* an image of size 0 x 0.
Orphans ==
    {i \in Positions("texImage2D") :
        /\ cmds[i].arg.name \in {engine.mScratchTextures[1], engine.mScratchTextures[2]}
        /\ cmds[i].arg.width = 0 /\ cmds[i].arg.height = 0}

Before(earlier, later) == \A i \in earlier, j \in later : i < j

\* The shader-based operations.
ShaderOps == {"copySubImageToLUMAWorkaroundTexture", "blitColorBufferWithShader",
              "copySubTexture"}

\* The order of a shader-based call up to the close of the guard: resources,
\* program, guard opened, one draw, guard closed.
OrderedUntilClose ==
    /\ Positions("initializeResources") = {1}
    /\ Cardinality(Positions("getBlitProgram")) = 1
    /\ Before(Positions("initializeResources"), Positions("getBlitProgram"))
    /\ Before(Positions("getBlitProgram") \cup Positions("createProgram")
                  \cup Positions("compileShader") \cup Positions("linkProgram")
                  \cup Positions("getUniformLocation"),
              Positions("setViewport"))
    /\ Cardinality(Positions("setViewport")) = 1
    /\ Cardinality(Positions("drawArrays")) = 1
    /\ Before(Positions("setViewport") \cup Positions("pauseAllQueries"),
              Positions("drawArrays"))
    /\ Cardinality(Positions("resumeAllQueries")) = 1
    /\ Before(Positions("drawArrays"), Positions("resumeAllQueries"))

\* C24: a call of a shader-based operation that opens the guard ensures the resources, then
\* gets the program, then opens the guard, then draws exactly once with the
\* guard open, then closes the guard, and orphans the scratch textures, if it
\* does, only after the guard is closed.
C24_TransactionOrder ==
    (call.name \in ShaderOps /\ GuardOpened(cmds)) =>
        /\ OrderedUntilClose
        /\ Before(Positions("resumeAllQueries"), Orphans)

C25_Step ==
    (PublicCall /\ call'.name \in GuardOps) =>
        \A i \in 1..Len(cmds') :
            cmds'[i].cmd = "drawArrays" =>
                LET at == cmds'[i].arg.rs
                IN /\ \A f \in GuardDisabled : at[f] = FALSE
                   /\ at.colorMask = <<TRUE, TRUE, TRUE, TRUE>>
                   /\ at.depthRange = <<0, 1>>
                   /\ at.viewport = GuardViewport(call'.name, call'.in)
                   /\ at.scissorTest = IF call'.name = "blitColorBufferWithShader"
                                         THEN rs.scissorTest ELSE FALSE

\* C25: at every draw, whatever the device state was when the call started,
\* blending, depth test, stencil test, sample coverage, alpha to coverage,
\* face culling, polygon offset fill and rasterizer discard are disabled, the
\* colour mask is all true, the depth range is [0, 1] and the viewport is the
\* call's target rectangle (the destination rectangle without reversal for
\* blitColorBufferWithShader, (destOffset.x, destOffset.y, sourceArea.width,
\* sourceArea.height) for copySubTexture, (0, 0, sourceArea.width,
\* sourceArea.height) for the LUMA copy); the scissor test is disabled at the
\* draw of copySubTexture and of the LUMA copy and is as the caller left it at
\* the draw of blitColorBufferWithShader.
C25_DrawState == [][C25_Step]_vars

C25_Witness ==
    /\ call.n = 1 /\ call.name = "copySubTexture" /\ call.result = "true"
    /\ rs.clearColor = RenderBusy.clearColor
    /\ \E i \in 1..Len(cmds) :
           /\ cmds[i].cmd = "drawArrays"
           /\ ~cmds[i].arg.rs.scissorTest /\ ~cmds[i].arg.rs.cullFace
           /\ cmds[i].arg.rs.viewport = Rect(1, 2, 2, 1)
           /\ cmds[i].arg.rs.depthRange = <<0, 1>>

\* The attachment commands of the call that attach an image, by command name.
AttachCount(c) ==
    Cardinality({i \in Positions(c) : cmds[i].arg.att.kind # "none"})

\* clearRenderableTexture attached the whole image with the command c, once
\* for each bind target, and with no other command.
AttachedWhole(c, kind) ==
    /\ AttachCount(c) = Cardinality(ClearPoints)
    /\ \A o \in {"framebufferTexture2D", "framebufferTexture", "framebufferTextureLayer"} \ {c} :
           AttachCount(o) = 0
    /\ \A i \in Positions(c) :
           cmds[i].arg.att = [kind |-> kind, name |-> SourceTextureID, layer |-> -1]
    /\ \A i \in Positions("clear") : \A p \in ClearPoints : cmds[i].arg.att[p].kind = kind

\* The first n layers of the range are attached one by one and the first k of
\* them cleared.
AttachedByLayer(n, k) ==
    /\ AttachCount("framebufferTexture2D") = 0 /\ AttachCount("framebufferTexture") = 0
    /\ \A p \in ClearPoints :
           AttachedLayers(p) = LayerRange(n) /\ ClearedLayers(p) = LayerRange(k)
    /\ Count(cmds, "clear") = k

WholeLevelClear ==
    /\ call.name = "clearRenderableTexture" /\ ~UseTexImage2D(call.in.type)
    /\ objs.caps.framebufferTexture /\ ~call.in.imageIndex.hasLayer

\* C26 as stated: for a 3D / array texture clearRenderableTexture attaches the
\* whole level and clears exactly once when the device has framebufferTexture
\* and the image index names no layer, and else attaches and clears every
\* layer of the range (numTextureLayers layers from 0, or the layer range of
\* the index); for a 2D-class texture it attaches the level once and clears
\* exactly once.
C26_Original ==
    call.name = "clearRenderableTexture" =>
        IF UseTexImage2D(call.in.type)
          THEN AttachedWhole("framebufferTexture2D", "texture") /\ Count(cmds, "clear") = 1
        ELSE IF WholeLevelClear
          THEN AttachedWhole("framebufferTexture", "level") /\ Count(cmds, "clear") = 1
        ELSE AttachedByLayer(LayerCount, LayerCount)

\* The layers of the range before the first incomplete one (all of them when
\* every layer is complete).
CompleteLayers ==
    IF IncompleteLayers = {} THEN LayerCount
    ELSE (CHOOSE l \in IncompleteLayers : \A o \in IncompleteLayers : l <= o) - FirstLayer

\* C26, amended: the path is chosen as stated, and the clears are those of a
\* complete framebuffer: with the whole image attached (a 2D-class texture, or
\* a whole level) the call clears exactly once when the framebuffer is
\* complete and not at all when it is not; layer by layer it attaches and
\* clears every layer of the range when all are complete, and else the layers
\* before the first incomplete one, which it attaches and does not clear.
C26_ClearPath ==
    call.name = "clearRenderableTexture" =>
        IF UseTexImage2D(call.in.type)
          THEN /\ AttachedWhole("framebufferTexture2D", "texture")
               /\ Count(cmds, "clear") = IF call.in.complete[0] THEN 1 ELSE 0
        ELSE IF WholeLevelClear
          THEN /\ AttachedWhole("framebufferTexture", "level")
               /\ Count(cmds, "clear") = IF call.in.complete[0] THEN 1 ELSE 0
        ELSE AttachedByLayer(IF IncompleteLayers = {} THEN LayerCount ELSE CompleteLayers + 1,
                             CompleteLayers)

C26_Witness ==
    /\ WholeLevelClear /\ call.result = "true"
    /\ call.in.numTextureLayers = MaxLayers
    /\ call.in.complete = [l \in Layers |-> l = 0]
    /\ AttachCount("framebufferTexture") = 1 /\ Count(cmds, "clear") = 1
    /\ ~Has(cmds, "framebufferTextureLayer")

BuildCommands == {"getBlitProgram", "createProgram", "createShader", "shaderSource",
                  "compileShader", "attachShader", "deleteShader", "linkProgram",
                  "getUniformLocation"}

\* getBlitProgram returned success to the call: the call went on after it (it
\* issued a command that is not of getBlitProgram) or returned no error.
GotBlitProgram ==
    /\ call.name \in GuardOps /\ Has(cmds, "getBlitProgram")
    /\ \/ call.result # "Error"
       \/ \E i \in 1..Len(cmds) :
              /\ cmds[i].cmd \notin BuildCommands
              /\ \E j \in 1..(i - 1) : cmds[j].cmd = "getBlitProgram"

\* C27: whenever getBlitProgram returns success for a variant, in any sequence
\* of calls and also after an earlier call in which the variant failed to
\* compile or link, the program it hands out has had its two shaders compiled,
\* is linked, and its uniform locations have been queried.
C27_ProgramReady ==
    \A t \in BlitProgramType :
        (GotBlitProgram /\ Requested(cmds, t)) =>
            /\ Cached(engine, t)
            /\ engine.mBlitPrograms[t].program \in objs.linked
            /\ stats.compiled[t] = 2 /\ stats.linked[t] = 1
            /\ engine.mBlitPrograms[t] =
                   [program |-> engine.mBlitPrograms[t].program,
                    sourceTextureLocation |-> 0, scaleLocation |-> 1, offsetLocation |-> 2,
                    multiplyAlphaLocation |-> 3, unMultiplyAlphaLocation |-> 4]
            /\ \A i \in Positions("drawArrays") : cmds[i].arg.linked

\* The pixel store state copySubTextureCPUReadback sets: alignment 1, no buffer.
TightlyPacked == [alignment |-> 1, buffer |-> 0]

\* C28: in copySubTextureCPUReadback, whatever pack and unpack state the caller
\* left, when readPixels is issued the pack state is alignment 1 with no pack
\* buffer bound, and when texSubImage2D is issued the unpack state is
\* alignment 1 with no unpack buffer bound.
C28_PixelStoreState ==
    call.name = "copySubTextureCPUReadback" =>
        /\ \A i \in Positions("readPixels") : cmds[i].arg.pack = TightlyPacked
        /\ \A i \in Positions("texSubImage2D") : cmds[i].arg.unpack = TightlyPacked

\* The texture a shader-based call samples.
DrawSource ==
    IF call.name = "copySubTexture" THEN SourceTextureID ELSE engine.mScratchTextures[1]

\* C29: at every draw of a shader-based call texture unit 0 is active and has
\* the call's source texture bound (scratch texture 0 for
\* blitColorBufferWithShader and the LUMA copy, the caller's source texture
\* for copySubTexture), no sampler object is bound to unit 0 on a device that
\* has sampler objects, the source-texture uniform of the program in use is 0,
\* the program in use is the cached program of the variant, and the engine's
\* vertex array is bound.
C29_DrawBindings ==
    (call.name \in GuardOps /\ Draws # {}) =>
        \A i \in Draws :
            LET at == cmds[i].arg.bind
            IN /\ at.activeUnit = 0
               /\ at.texture[0]["_2D"] = DrawSource
               /\ objs.caps.bindSampler => at.sampler[0] = 0
               /\ \E t \in BlitProgramType :
                      /\ Requested(cmds, t)
                      /\ Cached(engine, t) /\ at.program = engine.mBlitPrograms[t].program
               /\ at.vao = engine.mVAO /\ engine.mVAO # 0
               /\ cmds[i].arg.linked
               /\ cmds[i].arg.uniforms.u_source_texture = 0

\* The sum of two quotients, and a quotient in lowest terms.
Plus(p, q) == Frac(p.num * q.den + q.num * p.den, p.den * q.den)

Lowest(q) == Frac(q.num, q.den)

\* The offset and scale a log gave the uniforms u_offset and u_scale, in
\* lowest terms.
ScaleOffset(log) ==
    LET set == SelectSeq(log, LAMBDA e : e.cmd = "uniform")
    IN [offset |-> [x |-> Lowest(set[3].arg.value.x), y |-> Lowest(set[3].arg.value.y)],
        scale |-> [x |-> Lowest(set[2].arg.value.x), y |-> Lowest(set[2].arg.value.y)]]

\* A reversal applied to an offset and scale pair on the chosen axes:
\* (offset, scale) becomes (offset + scale, -scale).
ReversedPair(pair, x, y) ==
    [offset |-> [x |-> IF x THEN Plus(pair.offset.x, pair.scale.x) ELSE pair.offset.x,
                 y |-> IF y THEN Plus(pair.offset.y, pair.scale.y) ELSE pair.offset.y],
     scale |-> [x |-> IF x THEN Frac(-pair.scale.x.num, pair.scale.x.den) ELSE pair.scale.x,
                y |-> IF y THEN Frac(-pair.scale.y.num, pair.scale.y.den) ELSE pair.scale.y]]

\* The rectangle traversed in the opposite direction on the chosen axes.
Flipped(r, x, y) ==
    LET a == IF x THEN [r EXCEPT !.x = r.x + r.width, !.width = -r.width] ELSE r
    IN IF y THEN [a EXCEPT !.y = a.y + a.height, !.height = -a.height] ELSE a

\* The pair of a blit that drew, by its source rectangle and the clipped one.
C30_Represents ==
    BlitDrew =>
        LET source == call.in.sourceAreaIn
            dest == call.in.destAreaIn
            x == (source.width < 0) # (dest.width < 0)
            y == (source.height < 0) # (dest.height < 0)
            sourceArea == Flipped(source, source.width < 0, source.height < 0)
            inBounds == ClipRectangle(sourceArea, Rect(0, 0, call.in.sourceSize.width,
                                                       call.in.sourceSize.height)).intersection
            applied == ScaleOffset(cmds)
            before == ReversedPair(applied, x, y)
        IN /\ Times(before.offset.x, Frac(inBounds.width, 1))
                  = Frac(sourceArea.x - inBounds.x, 1)
           /\ Times(before.offset.y, Frac(inBounds.height, 1))
                  = Frac(sourceArea.y - inBounds.y, 1)
           /\ Times(before.scale.x, Frac(inBounds.width, 1)) = Frac(sourceArea.width, 1)
           /\ Times(before.scale.y, Frac(inBounds.height, 1)) = Frac(sourceArea.height, 1)
           /\ x => /\ Plus(applied.offset.x, applied.scale.x) = before.offset.x
                   /\ applied.offset.x = Plus(before.offset.x, before.scale.x)
           /\ y => /\ Plus(applied.offset.y, applied.scale.y) = before.offset.y
                   /\ applied.offset.y = Plus(before.offset.y, before.scale.y)
           /\ \A a \in BOOLEAN, b \in BOOLEAN :
                  ReversedPair(ReversedPair(applied, a, b), a, b) = applied

\* A blit of the same rectangles with the source traversed in the opposite
\* direction on some axes gives the pair with the reversal applied on them.
C30_Step ==
    (PublicCall /\ call'.name = "blitColorBufferWithShader" /\ Has(cmds', "drawArrays")) =>
        \A x \in BOOLEAN, y \in BOOLEAN :
            \A other \in {blitColorBufferWithShader(
                              Machine, [call'.in EXCEPT !.sourceAreaIn = Flipped(@, x, y)])} :
                ScaleOffset(other.log) = ReversedPair(ScaleOffset(cmds'), x, y)

\* C30: in blitColorBufferWithShader the offset and scale represent the
\* source rectangle without reversal relative to the clipped in-bounds
\* region: before a reversal, offset * inBounds.size = sourceArea.origin -
\* inBounds.origin and scale * inBounds.size = sourceArea.size on each axis; a
\* reversal on an axis replaces (offset, scale) by (offset + scale, -scale),
\* the same interval of coordinates traversed in the opposite direction, and
\* applied twice it gives the pair back.
C30_ScaleOffsetAlgebra == [](C30_Represents) /\ [][C30_Step]_vars

C30_Witness ==
    /\ BlitDrew
    /\ call.in.sourceAreaIn = Rect(-1, 1, 2, 1) /\ call.in.destAreaIn = Rect(3, 1, -2, 2)
    /\ ScaleOffset(cmds).scale = [x |-> Frac(-2, 1), y |-> Frac(1, 1)]
    /\ ScaleOffset(cmds).offset = [x |-> Frac(1, 1), y |-> Frac(0, 1)]

\* The offset and scale of the sub-rectangle relative to the full extents.
PlainPair(area, size) ==
    [offset |-> [x |-> Frac(area.x, size.width), y |-> Frac(area.y, size.height)],
     scale |-> [x |-> Frac(area.width, size.width), y |-> Frac(area.height, size.height)]]

CopyDrew == call.name = "copySubTexture" /\ Has(cmds, "drawArrays")

\* C31: in copySubTexture the sample scale and offset are the source
\* sub-rectangle's size and origin divided by the full source extents; with
\* flipY the Y pair becomes (offset.y + scale.y, -scale.y) and the X pair is
\* unchanged, so the sampled Y interval is the same one, from its other end;
\* without flipY neither pair is changed.
C31_FlipY ==
    CopyDrew =>
        LET plain == PlainPair(call.in.sourceArea, call.in.sourceSize)
            applied == ScaleOffset(cmds)
            first == applied.offset.y
            last == Plus(applied.offset.y, applied.scale.y)
        IN /\ applied.offset.x = plain.offset.x /\ applied.scale.x = plain.scale.x
           /\ IF call.in.unpackFlipY
                THEN /\ applied.offset.y = Plus(plain.offset.y, plain.scale.y)
                     /\ applied.scale.y = Frac(-plain.scale.y.num, plain.scale.y.den)
                     /\ first = Plus(plain.offset.y, plain.scale.y)
                     /\ last = plain.offset.y
                ELSE applied = plain

C31_Witness ==
    /\ CopyDrew /\ call.in.unpackFlipY
    /\ call.in.sourceArea = Rect(2, 1, 2, 1) /\ call.in.sourceSize = [width |-> 4, height |-> 2]
    /\ ScaleOffset(cmds).scale = [x |-> Frac(1, 2), y |-> Frac(-1, 2)]
    /\ ScaleOffset(cmds).offset = [x |-> Frac(1, 2), y |-> Frac(1, 1)]

\* What a sampler gives for a texel through a swizzle: each output component
\* is the texel's component the swizzle names, or the constant 0 or 1.
Component(texel, s) ==
    CASE s = "GL_RED" -> texel.r
      [] s = "GL_GREEN" -> texel.g
      [] s = "GL_BLUE" -> texel.b
      [] s = "GL_ALPHA" -> texel.a
      [] s = "GL_ZERO" -> 0
      [] s = "GL_ONE" -> 1

Swizzled(texel, swizzle) ==
    [r |-> Component(texel, swizzle[1]), g |-> Component(texel, swizzle[2]),
     b |-> Component(texel, swizzle[3]), a |-> Component(texel, swizzle[4])]

\* Texels whose components are neither of the two constants.
Texels == {[r |-> r, g |-> g, b |-> b, a |-> a] : r \in 2..3, g \in 2..3, b \in 2..3, a \in 2..3}

LumaCopyDrew ==
    /\ call.name \in {"copySubImageToLUMAWorkaroundTexture", "copyImageToLUMAWorkaroundTexture"}
    /\ Has(cmds, "drawArrays")

\* The swizzle the call gave the first scratch texture.
ScratchSwizzle ==
    LET i == CHOOSE i \in Positions("texParameter") : cmds[i].arg.param = "swizzle"
    IN cmds[i].arg.value

\* The LUMA copy draws the swizzled scratch texture into the second one; the
\* emulated texture takes its first channel from the red and its second from
\* the green of what was drawn.  alphaOfBoth names the source channel the
\* emulated alpha of a luminance-alpha format reads.
ScratchMapping(alphaOfBoth) ==
    LumaCopyDrew =>
        \A texel \in Texels :
            LET drawn == Swizzled(texel, ScratchSwizzle)
                lumaFormat == call.in.lumaFormat
            IN /\ lumaFormat = "GL_ALPHA" => drawn.r = texel.a
               /\ lumaFormat = "GL_LUMINANCE_ALPHA" =>
                      drawn.r = texel.r /\ drawn.g = Component(texel, alphaOfBoth)
               /\ lumaFormat = "GL_LUMINANCE" => drawn.r = texel.r /\ drawn.g \in {0, 1}

\* copySubTexture sets the swizzle of its source only when the LUMA workaround
\* is requested, and sets it then whenever it draws.
C32_Step ==
    (PublicCall /\ call'.name = "copySubTexture") =>
        /\ Has(cmds', "setSwizzle") => call'.in.needsLumaWorkaround
        /\ ~call'.in.needsLumaWorkaround => src'.swizzle = src.swizzle
        /\ (call'.in.needsLumaWorkaround /\ Has(cmds', "drawArrays")) =>
              /\ Has(cmds', "setSwizzle")
              /\ src'.swizzle = cmds'[CHOOSE i \in 1..Len(cmds') : cmds'[i].cmd = "setSwizzle"].arg

\* C32 as stated: the emulated alpha of a luminance-alpha format reads the
\* source's green.
C32_Original == [](ScratchMapping("GL_GREEN")) /\ [][C32_Step]_vars

\* C32: LUMA channel mapping of the LUMA copy: for an alpha-only format the
\* emulated channel reads the source alpha; for luminance-alpha, luminance
\* reads red and alpha reads the source alpha; for luminance-only, luminance
\* reads red and alpha is a constant.  In copySubTexture the swizzle is applied
\* to the source only when the LUMA workaround is requested, and the source
\* texture's swizzle is left untouched otherwise.
C32_ChannelMapping == [](ScratchMapping("GL_ALPHA")) /\ [][C32_Step]_vars

C32_Witness ==
    /\ LumaCopyDrew /\ call.in.lumaFormat = "GL_LUMINANCE_ALPHA"
    /\ ScratchSwizzle = <<"GL_RED", "GL_ALPHA", "GL_ZERO", "GL_ZERO">>
    /\ \A texel \in Texels : Swizzled(texel, ScratchSwizzle).g = texel.a

\* The number a #version line names.
VersionNumber(version) ==
    CASE version = "100" -> 100
      [] version = "300 es" -> 300
      [] version = "330" -> 330

\* The variants the call created a program for, and the shader sources it
\* gave the device.
CreatedTypes == {cmds[i].arg.type : i \in Positions("createProgram")}

ShaderSources == {cmds[i].arg.source : i \in Positions("shaderSource")}

IsFragmentSource(source) == "samplerType" \in DOMAIN source

\* C33: the shader sources are a function of the variant and the device's GL
\* standard only: the version is above 100 exactly for FLOAT_TO_UINT and
\* UINT_TO_UINT; the sampler is usampler2D exactly for UINT_TO_UINT; the output
\* is gl_FragColor exactly for FLOAT_TO_FLOAT and an explicit uvec4 output
\* otherwise; the output multiplier is 1.0 for FLOAT_TO_FLOAT and 255.0 for the
\* two integer-output variants.
C33_ShaderSynthesis ==
    \A type \in CreatedTypes : \A source \in ShaderSources :
        LET integer == type \in {"FLOAT_TO_UINT", "UINT_TO_UINT"}
        IN /\ source = IF IsFragmentSource(source)
                         THEN FragmentShaderSource(type, objs.caps.standard)
                         ELSE VertexShaderSource(type, objs.caps.standard)
           /\ VersionNumber(source.version) > 100 <=> integer
           /\ IsFragmentSource(source) =>
                 /\ source.samplerType \in {"sampler2D", "usampler2D"}
                 /\ source.samplerType = "usampler2D" <=> type = "UINT_TO_UINT"
                 /\ source.outputVariableName = "gl_FragColor" <=> type = "FLOAT_TO_FLOAT"
                 /\ type = "FLOAT_TO_FLOAT" =>
                       source.outputType = "" /\ source.outputMultiplier = "1.0"
                 /\ integer =>
                       /\ source.outputType = "uvec4"
                       /\ source.fsOutputVariableQualifier = "out"
                       /\ source.outputVariableName = "outputUint"
                       /\ source.outputMultiplier = "255.0"

C33_Witness ==
    /\ CreatedTypes = {"FLOAT_TO_UINT"}
    /\ objs.caps.standard = "STANDARD_GL_ES"
    /\ \E source \in ShaderSources :
          /\ IsFragmentSource(source)
          /\ source.version = "300 es" /\ source.samplerType = "sampler2D"
          /\ source.outputType = "uvec4" /\ source.outputMultiplier = "255.0"
    /\ Cardinality(ShaderSources) = 2

====
